---- MODULE Spec2Model ----
(***************************************************************************)
(* Model of the account pool of kiro-account-manager (AccountPool, in      *)
(* src/unnamed/part_002): the accounts map, the token-manager map, the     *)
(* three selection strategies, outcome recording with cooldown timers,     *)
(* manual recovery, enable/disable, add/remove, and the shared-file        *)
(* synchronizer.                                                           *)
(*                                                                         *)
(* JavaScript runs every handler to completion between two awaits, so one  *)
(* action is one synchronous segment of a handler.  Fields the modelled    *)
(* operations never read (name, createdAt) are left out.  A                *)
(* timestamp produced by new Date().toISOString() is the token "iso".      *)
(***************************************************************************)
EXTENDS Integers, Sequences, FiniteSets, TLC

(* ------------------------------ bounds --------------------------------- *)

\* Cap on the pool's total of requestCount and on roundRobinIndex.
MaxCount == 2
\* Cap on the pool's total of errorCount and on pending cooldown timers.
MaxErrors == 1
\* Cap on the callers waiting for one shared-file sync.
MaxWaiters == 2
\* The largest mtime the shared file is given.
MaxMtimeMs == 2
\* Cap on what the callers of a pool have left in it: requests and errors
\* counted, timers and writes pending, continuations waiting, accounts
\* invalid, a strategy other than the default.
MaxBusy == 4
\* The caps of a pool over the database.
DbCount == 1
DbBusy == 3
\* The caps of a pool over the shared file whose callers record errors.
SharedCount == 2
SharedWaiters == 1
SharedBusy == 3
\* The caps of a pool over the shared file whose callers queue up.
SyncCount == 2
SyncBusy == 2
\* The caps of a pool of either mode.
ModesCount == 1
ModesWaiters == 1
ModesBusy == 2
\* The caps of a pool whose accounts are rate-limited repeatedly.
MaxRepeats == 2
CooldownCount == 1
CooldownBusy == 4
\* Cap on the accounts, requests, errors and waiting callers of a pool that
\* is called before load() has completed.
MaxEarly == 2
\* Cap on the accounts, requests, errors and waiting callers of a shared pool
\* whose load() is called again while its sync loop runs.
MaxReload == 2

\* Sample account ids (opaque strings in the program).
Ids == {"A", "B"}

Null == "null"
Iso == "iso"
\* A lastUsedAt timestamp written in the shared file by its producer.
FileIso == "file-iso"

Statuses == {"active", "cooldown", "invalid", "disabled"}
Strategies == {"round-robin", "random", "least-used"}

VARIABLES
  pool,       \* the AccountPool object's fields (this.*)
  db,         \* this.db: [present |-> is there a database, rows |-> its accounts
              \* table, pending |-> the writes selectAccount queued with setImmediate]
  timers,     \* pending cooldown timeouts, in scheduling (= firing) order
  detached,   \* account objects no longer in the map but still captured by a timer
  usageCalls, \* the calls of refreshAccountUsage that await their token or the
              \* usage limits, with the account and the manager each has captured
  file,       \* the shared accounts file on disk
  waiters,    \* continuations awaiting the in-flight sync, in registration
              \* order; those of load() (op "load") are among them
  ready,      \* continuations of a settled sync, run before any other task
  phase,      \* load(): "new" until fs.mkdir has answered a call of it,
              \* "loading" while no call has resolved and one awaits its sync,
              \* "ready" once a call has resolved
  hist,       \* history: successful selections per id and under round-robin
  limits,     \* the bounds of the run: how far its callers and the file's
              \* writers go
  call        \* one KiroClient.callApiStream call: its inputs and its progress

\* The state of the account pool.
poolVars == <<pool, db, timers, detached, usageCalls, file, waiters, ready, phase, hist, limits>>

vars == <<pool, db, timers, detached, usageCalls, file, waiters, ready, phase, hist, limits, call>>

(* ------------------------- JavaScript Map helpers ---------------------- *)

\* Map of accounts as the sequence of its values in insertion order.
HasId(accs, id) == \E i \in 1..Len(accs) : accs[i].id = id

IndexOfId(accs, id) ==
  IF HasId(accs, id) THEN CHOOSE i \in 1..Len(accs) : accs[i].id = id ELSE 0

\* Map.get for a key the map holds.
MapGet(accs, id) == accs[IndexOfId(accs, id)]

\* Map.set: an existing key keeps its position, a new key goes last.
MapSet(accs, acc) ==
  IF HasId(accs, acc.id) THEN [accs EXCEPT ![IndexOfId(accs, acc.id)] = acc]
  ELSE Append(accs, acc)

\* Map.delete.
MapDelete(accs, id) == SelectSeq(accs, LAMBDA a : a.id # id)

KeysOf(accs) == {accs[i].id : i \in 1..Len(accs)}

\* What Map.get gives for a missing key (undefined).
NoManager == [key |-> Null, refreshToken |-> FALSE, accessToken |-> Null, refreshing |-> FALSE]

\* Map.get on the token-manager map (a function on the ids it holds).
TmGet(tms, id) == IF id \in DOMAIN tms THEN tms[id] ELSE NoManager

TmSet(tms, id, tm) == [k \in (DOMAIN tms) \cup {id} |-> IF k = id THEN tm ELSE tms[k]]

TmDelete(tms, id) == [k \in (DOMAIN tms) \ {id} |-> tms[k]]

EmptyMap == [k \in {} |-> NoManager]

\* The access token a refresh obtains, and the one a record of the shared
\* file carries.
FreshToken == "fresh-token"
FileToken == "file-token"

\* The credentials of an account: its refresh token (is there one) and the
\* access token given with it (Null for none).
Credentials(refreshToken, accessToken) ==
  [refreshToken |-> refreshToken, accessToken |-> accessToken]

\* new TokenManager(config, credentials): the manager object made for one
\* key.  It caches the access token of its credentials and has no refresh in
\* flight.
NewTokenManager(id, credentials) ==
  [key |-> id, refreshToken |-> credentials.refreshToken,
   accessToken |-> credentials.accessToken, refreshing |-> FALSE]

\* tm.ensureValidToken() up to its first await: the cached token is returned
\* when there is one and it has not expired, otherwise a refresh is started
\* unless one is in flight.
ensureValidToken(tm, expired) ==
  IF tm.accessToken = Null \/ expired THEN [tm EXCEPT !.refreshing = TRUE] ELSE tm

\* The refresh in flight ends: on success the manager caches the new token.
refreshEnded(tm, ok) ==
  [tm EXCEPT !.refreshing = FALSE, !.accessToken = IF ok THEN FreshToken ELSE @]

(* ------------------------------ accounts ------------------------------- *)

\* The quota snapshot checkUsageLimits gives (lines 359-367), and the one a
\* record of the shared file carries.
FreshUsage == "usage"
FileUsage == "file-usage"

\* The object addAccount builds (lines 287-296).  It has no usage key, which
\* reads as undefined: listAccounts gives null for it (line 340), and so does
\* the usage column of the row inserted for it.
newAccount(id, refreshToken) ==
  [id |-> id, status |-> "active", requestCount |-> 0, errorCount |-> 0,
   lastUsedAt |-> Null, refreshToken |-> refreshToken, usage |-> Null]

(* ------------------------------ database ------------------------------- *)

NoDb == [present |-> FALSE, rows |-> <<>>, pending |-> <<>>]

\* db.updateAccount(id, fields): UPDATE of the row with that id, if any.
dbUpdateAccount(d, id, fields) ==
  [d EXCEPT !.rows =
     [i \in 1..Len(d.rows) |->
        IF d.rows[i].id = id
        THEN [k \in DOMAIN d.rows[i] |->
                IF k \in DOMAIN fields THEN fields[k] ELSE d.rows[i][k]]
        ELSE d.rows[i]]]

\* db.insertAccount(account): a new row; a row with the same id is replaced.
dbInsertAccount(d, acc) == [d EXCEPT !.rows = MapSet(@, acc)]

\* db.deleteAccount(id) and db.deleteAccounts(ids).
dbDeleteAccounts(d, ids) == [d EXCEPT !.rows = SelectSeq(@, LAMBDA r : r.id \notin ids)]

\* this.db && !this.sharedMode
WritesDb(p, d) == d.present /\ ~p.sharedMode

(* ------------------------------ selection ------------------------------ *)

\* A filter that only leaves out the invalid accounts.
availableNotInvalid(accs) == SelectSeq(accs, LAMBDA a : a.status # "invalid")

\* Lines 399-400: the active accounts, in insertion order.
available(accs) == SelectSeq(accs, LAMBDA a : a.status = "active")

\* Line 407: available[Math.floor(Math.random() * available.length)].
randomPick(av, rnd) == av[rnd + 1]

\* A reduce that keeps the accumulator on a tie (<= in place of <).
RECURSIVE reduceKeepFirst(_, _)
reduceKeepFirst(a, rest) ==
  IF rest = <<>> THEN a
  ELSE reduceKeepFirst(IF a.requestCount <= Head(rest).requestCount THEN a ELSE Head(rest),
                       Tail(rest))

\* Line 410: available.reduce((a, b) => a.requestCount < b.requestCount ? a : b).
RECURSIVE reduceLeastUsed(_, _)
reduceLeastUsed(a, rest) ==
  IF rest = <<>> THEN a
  ELSE reduceLeastUsed(IF a.requestCount < Head(rest).requestCount THEN a ELSE Head(rest),
                       Tail(rest))

\* A pick that ignores the counts.
firstPick(av) == Head(av)

\* Line 410: the reduce over the active accounts, which are not empty.
leastUsedPick(av) == reduceLeastUsed(Head(av), Tail(av))

\* An index taken after the increment instead of before it.
roundRobinPickAfterIncrement(av, idx) == av[((idx + 1) % Len(av)) + 1]

\* Line 413: available[this.roundRobinIndex % available.length].
roundRobinPick(av, idx) == av[(idx % Len(av)) + 1]

\* Lines 405-415: the strategy switch; round-robin is the default branch.
pickAccount(p, av, rnd) ==
  CASE p.strategy = "random" -> randomPick(av, rnd)
    [] p.strategy = "least-used" -> leastUsedPick(av)
    [] OTHER -> roundRobinPick(av, p.roundRobinIndex)

\* A cursor that is never advanced.
keepRoundRobinIndex(p) == p.roundRobinIndex

\* Lines 413-414: only the round-robin branch advances the cursor.
nextRoundRobinIndex(p) ==
  IF p.strategy \in {"random", "least-used"} THEN p.roundRobinIndex
  ELSE p.roundRobinIndex + 1

\* A selection that counts the request but forgets the timestamp.
touchSelectedNoTimestamp(acc) == [acc EXCEPT !.requestCount = @ + 1]

\* Lines 417-418: selected.requestCount++; selected.lastUsedAt = now.
touchSelected(acc) == [acc EXCEPT !.requestCount = @ + 1, !.lastUsedAt = Iso]

\* Lines 399-435, the synchronous part of selectAccount: the pool afterwards
\* and the returned {id, tokenManager} (id Null for `return null`).
selectAccount(p, rnd) ==
  LET av == available(p.accounts) IN
  IF Len(av) = 0 THEN [pool |-> p, id |-> Null, tokenManager |-> NoManager]
  ELSE LET selected == pickAccount(p, av, rnd) IN
       [pool |-> [p EXCEPT !.accounts = MapSet(@, touchSelected(selected)),
                           !.roundRobinIndex = nextRoundRobinIndex(p)],
        id |-> selected.id,
        tokenManager |-> TmGet(p.tokenManagers, selected.id)]

(* --------------------- outcome recording and status -------------------- *)

\* account.status = s on the object stored under id (no-op for a missing id).
setStatus(accs, id, s) ==
  IF HasId(accs, id) THEN [accs EXCEPT ![IndexOfId(accs, id)].status = s] ELSE accs

StatusOf(accs, id) == MapGet(accs, id).status

\* Lines 441-443 of recordError: errorCount++, and cooldown on a rate limit.
recordErrorAccount(acc, isRateLimit) ==
  [acc EXCEPT !.errorCount = @ + 1,
              !.status = IF isRateLimit THEN "cooldown" ELSE @]

\* Lines 437-443: recordError(id, isRateLimit) on the accounts map.
recordError(p, id, isRateLimit) ==
  IF ~HasId(p.accounts, id) THEN p
  ELSE [p EXCEPT !.accounts =
          MapSet(@, recordErrorAccount(MapGet(@, id), isRateLimit))]

\* A callback that reactivates without looking at the status.
cooldownExpiredUnchecked(status) == "active"

\* Lines 444-451: the timeout's callback, on the status of the object it captured.
cooldownExpired(status) == IF status = "cooldown" THEN "active" ELSE status

\* Lines 463-471: markInvalid(id).
markInvalid(p, id) == [p EXCEPT !.accounts = setStatus(@, id, "invalid")]

\* Lines 473-487: enableAccount(id) and what it returns.
enableAccount(p, id) ==
  IF p.sharedMode THEN [pool |-> p, result |-> FALSE]
  ELSE IF HasId(p.accounts, id)
  THEN [pool |-> [p EXCEPT !.accounts = setStatus(@, id, "active")], result |-> TRUE]
  ELSE [pool |-> p, result |-> FALSE]

\* Lines 489-503: disableAccount(id) and what it returns.
disableAccount(p, id) ==
  IF p.sharedMode THEN [pool |-> p, result |-> FALSE]
  ELSE IF HasId(p.accounts, id)
  THEN [pool |-> [p EXCEPT !.accounts = setStatus(@, id, "disabled")], result |-> TRUE]
  ELSE [pool |-> p, result |-> FALSE]

\* A recovery that reactivates whatever the status is.
recoverStatusUnchecked(status) == "active"

\* Lines 513-514 and 530-531: only a cooldown is recovered.
recoverStatus(status) == IF status = "cooldown" THEN "active" ELSE status

\* Lines 510-520: recoverCooldown(id) after its sync, and what it returns.
recoverCooldown(p, id) ==
  IF ~HasId(p.accounts, id) THEN [pool |-> p, result |-> FALSE]
  ELSE [pool |-> [p EXCEPT !.accounts = setStatus(@, id, recoverStatus(StatusOf(@, id)))],
        result |-> TRUE]

countCooldown(accs) == Len(SelectSeq(accs, LAMBDA a : a.status = "cooldown"))

\* Lines 528-541: recoverAllCooldowns() after its sync, and what it returns.
recoverAllCooldowns(p) ==
  [pool |-> [p EXCEPT !.accounts =
               [i \in 1..Len(@) |-> [@[i] EXCEPT !.status = recoverStatus(@)]]],
   total |-> Len(p.accounts),
   recovered |-> countCooldown(p.accounts)]

\* The rows recoverAllCooldowns updates, one db.updateAccount per recovered id.
RECURSIVE dbRecoverAll(_, _)
dbRecoverAll(d, accs) ==
  IF accs = <<>> THEN d
  ELSE dbRecoverAll(IF Head(accs).status = "cooldown"
                    THEN dbUpdateAccount(d, Head(accs).id, [status |-> "active"])
                    ELSE d,
                    Tail(accs))

(* ----------------------------- add / remove ---------------------------- *)

\* Lines 88-92: ensureWritable() throws in shared mode.
ensureWritable(p) == ~p.sharedMode

\* Lines 283-312: addAccount(account, skipValidation).  `valid` is the
\* outcome of tm.ensureValidToken(), which throws for rejected credentials.
\* Nothing is read or written before that await, so the handler is one step
\* taken when the validation ends.
addAccount(p, id, refreshToken, skipValidation, valid) ==
  IF ensureWritable(p) /\ (skipValidation \/ valid)
  THEN [pool |-> [p EXCEPT
                    !.accounts = MapSet(@, newAccount(id, refreshToken)),
                    !.tokenManagers =
                       TmSet(@, id, NewTokenManager(id, Credentials(refreshToken, Null)))],
        threw |-> FALSE]
  ELSE [pool |-> p, threw |-> TRUE]

\* A removeAccount without the shared-mode check.
removeAccountUnguarded(p, id) ==
  [pool |-> [p EXCEPT !.accounts = MapDelete(@, id),
                      !.tokenManagers = TmDelete(@, id)],
   result |-> HasId(p.accounts, id)]

\* Lines 314-325: removeAccount(id) and what it returns.
removeAccount(p, id) ==
  IF p.sharedMode THEN [pool |-> p, result |-> FALSE]
  ELSE [pool |-> [p EXCEPT !.accounts = MapDelete(@, id),
                           !.tokenManagers = TmDelete(@, id)],
        result |-> HasId(p.accounts, id)]

\* Lines 595-611: removeAccounts(ids) and its `removed`.
removeAccounts(p, ids) ==
  IF p.sharedMode THEN [pool |-> p, removed |-> 0]
  ELSE LET gone == ids \cap KeysOf(p.accounts) IN
       [pool |-> [p EXCEPT
                    !.accounts = SelectSeq(@, LAMBDA a : a.id \notin gone),
                    !.tokenManagers = [k \in (DOMAIN @) \ gone |-> @[k]]],
        removed |-> Cardinality(gone)]

\* Lines 544-546: setStrategy().
setStrategy(p, s) == [p EXCEPT !.strategy = s]

(* --------------------------- cooldown timers --------------------------- *)

\* A timeout set by recordError captures `account` (an object) and `id`.
\* obj = 0: the object is the one the map holds under id; obj = k > 0: the
\* object has left the map and is detached[k].
Timer(id) == [id |-> id, obj |-> 0]

FreshObj(det) == CHOOSE k \in 1..(Cardinality(DOMAIN det) + 1) : k \notin DOMAIN det

\* The object stored under acc.id leaves the map (delete, replace, swap):
\* the timers that captured it keep it alive.
detachOne(st, acc) ==
  IF \E i \in 1..Len(st.timers) : st.timers[i] = Timer(acc.id)
  THEN LET k == FreshObj(st.detached) IN
       [timers |-> [i \in 1..Len(st.timers) |->
                      IF st.timers[i] = Timer(acc.id)
                      THEN [id |-> acc.id, obj |-> k] ELSE st.timers[i]],
        detached |-> [j \in (DOMAIN st.detached) \cup {k} |->
                        IF j = k THEN acc.status ELSE st.detached[j]]]
  ELSE st

RECURSIVE detachAll(_, _)
detachAll(st, accs) ==
  IF accs = <<>> THEN st ELSE detachAll(detachOne(st, Head(accs)), Tail(accs))

\* Objects no timer refers to any more are garbage.
collect(ts, det) ==
  [k \in {j \in DOMAIN det : \E i \in 1..Len(ts) : ts[i].obj = j} |-> det[k]]

NoDetached == [k \in {} |-> "active"]

\* The callback selectAccount queues with setImmediate (lines 422-427)
\* captures `selected`.  live: the object is the one the map holds under id,
\* and its counters are read there when the callback runs; otherwise the
\* object has left the map with the counters recorded here.
Immediate(id) == [id |-> id, live |-> TRUE, requestCount |-> 0, lastUsedAt |-> Null]

\* The objects stored under ids leave the map accs: the queued callbacks
\* that captured them keep them as they are.
orphanWrites(d, accs, ids) ==
  [d EXCEPT !.pending =
     [i \in 1..Len(@) |->
        IF @[i].live /\ @[i].id \in ids /\ HasId(accs, @[i].id)
        THEN [id |-> @[i].id, live |-> FALSE,
              requestCount |-> MapGet(accs, @[i].id).requestCount,
              lastUsedAt |-> MapGet(accs, @[i].id).lastUsedAt]
        ELSE @[i]]]

\* Lines 423-426: db.updateAccount(selected.id, {requestCount, lastUsedAt})
\* with the counters the captured object has when the callback runs.
writeSelected(d, accs) ==
  LET w == Head(d.pending)
      selected == IF w.live THEN MapGet(accs, w.id) ELSE w IN
  dbUpdateAccount([d EXCEPT !.pending = Tail(@)], w.id,
                  [requestCount |-> selected.requestCount,
                   lastUsedAt |-> selected.lastUsedAt])

\* The iterator of the loop of refreshAllUsage (line 384), held by the call
\* of refreshAccountUsage the loop awaits (line 386).  live: the Map it
\* iterates is the one this.accounts holds, and `at` entries of it have been
\* given; otherwise a reload has swapped in a new Map, and rest holds the ids
\* of the entries of the old Map still to be given whose accounts are not
\* invalid.  An account object that has left the pool cannot become invalid,
\* nor stop being invalid.
NoLoop == [on |-> FALSE, live |-> FALSE, at |-> 0, rest |-> <<>>]

\* Line 384: the iteration starts on the Map this.accounts holds.
NewLoop == [on |-> TRUE, live |-> TRUE, at |-> 0, rest |-> <<>>]

\* Map.delete of the entries of accs under ids: the entries behind them move
\* up, and the iterator with them.
loopAfterDelete(loop, accs, ids) ==
  IF loop.on /\ loop.live
  THEN [loop EXCEPT !.at = @ - Cardinality({j \in 1..@ : j <= Len(accs) /\ accs[j].id \in ids})]
  ELSE loop

\* Map.clear (line 168): the iterator has nothing more to give until entries
\* are set.
loopAfterClear(loop) == IF loop.on /\ loop.live THEN [loop EXCEPT !.at = 0] ELSE loop

\* this.accounts = nextAccounts (line 217): the iterator stays on the old Map.
loopAfterSwap(loop, accs) ==
  IF loop.on /\ loop.live
  THEN [loop EXCEPT
          !.live = FALSE, !.at = 0,
          !.rest = LET left == SelectSeq(SubSeq(accs, loop.at + 1, Len(accs)),
                                         LAMBDA a : a.status # "invalid") IN
                   [i \in 1..Len(left) |-> left[i].id]]
  ELSE loop

\* The continuations seq, each with its iterator moved.
withLoops(seq, Moved(_)) == [i \in 1..Len(seq) |-> [seq[i] EXCEPT !.loop = Moved(@)]]

\* A continuation queued behind the sync in flight.
Waiter(op, id, loop) == [op |-> op, id |-> id, loop |-> loop]

\* A call of refreshAccountUsage(id) that awaits (lines 356-357) has
\* captured `account` and `tm`.  account, manager: the object is the one the
\* map holds under id.  pc: "token" while tm.ensureValidToken() awaits the
\* refresh, "usage" while checkUsageLimits is awaited.
UsageCall(id, pc, loop) ==
  [id |-> id, account |-> TRUE, manager |-> TRUE, pc |-> pc, loop |-> loop]

\* The account objects stored under accountIds and the manager objects
\* stored under managerIds leave their maps: the calls that captured them
\* keep them.
orphanCalls(calls, accountIds, managerIds) ==
  [i \in 1..Len(calls) |->
     [calls[i] EXCEPT !.account = @ /\ calls[i].id \notin accountIds,
                      !.manager = @ /\ calls[i].id \notin managerIds]]

\* The sequence without its i-th element.
RemoveAt(seq, i) == SubSeq(seq, 1, i - 1) \o SubSeq(seq, i + 1, Len(seq))

(* ------------------------- shared accounts file ------------------------ *)

\* Lines 9-33.  A raw status string is modelled by the keywords it contains.
\* The Chinese keywords of lines 18-19, 24 and 28 are written as their JSON
\* escapes: \u5c01\u7981 and \u5931\u6548 (invalid), \u7981\u7528 (disabled),
\* \u51b7\u5374 (cooldown).
mapStatus(rawStatus) ==
  IF rawStatus = {} THEN "active"
  ELSE IF rawStatus \cap {"invalid", "ban", "banned",
                          "\\u5c01\\u7981", "\\u5931\\u6548"} # {} THEN "invalid"
  ELSE IF rawStatus \cap {"disabled", "\\u7981\\u7528"} # {} THEN "disabled"
  ELSE IF rawStatus \cap {"cooldown", "\\u51b7\\u5374"} # {} THEN "cooldown"
  ELSE "active"

\* Lines 95-100: a record without refresh token normalizes to null.
normalizable(raw) == raw.refreshToken

\* Lines 35-61: the credentials of a record.
normalizeSharedCredentials(raw) == Credentials(raw.refreshToken, raw.accessToken)

\* Lines 102-116.
normalizeSharedAccount(raw) ==
  [id |-> raw.id, status |-> mapStatus(raw.status), requestCount |-> 0,
   errorCount |-> 0, lastUsedAt |-> raw.lastUsedAt, refreshToken |-> raw.refreshToken,
   usage |-> raw.usage]

\* A reload that carries the status and the errors over but restarts requestCount.
carryOverLosingRequests(account, accs) ==
  IF HasId(accs, account.id)
  THEN LET existingAccount == MapGet(accs, account.id) IN
       [account EXCEPT
          !.errorCount = existingAccount.errorCount,
          !.lastUsedAt = IF existingAccount.lastUsedAt # Null
                         THEN existingAccount.lastUsedAt ELSE @,
          !.status = IF existingAccount.status = "cooldown" THEN "cooldown" ELSE @]
  ELSE account

\* A reload that carries the counters over but takes the status from the file.
carryOverDroppingCooldown(account, accs) ==
  IF HasId(accs, account.id)
  THEN LET existingAccount == MapGet(accs, account.id) IN
       [account EXCEPT
          !.requestCount = existingAccount.requestCount,
          !.errorCount = existingAccount.errorCount,
          !.lastUsedAt = IF existingAccount.lastUsedAt # Null
                         THEN existingAccount.lastUsedAt ELSE @]
  ELSE account

\* A reload that carries the requests and the status over but restarts errorCount.
carryOverLosingErrors(account, accs) ==
  IF HasId(accs, account.id)
  THEN LET existingAccount == MapGet(accs, account.id) IN
       [account EXCEPT
          !.requestCount = existingAccount.requestCount,
          !.lastUsedAt = IF existingAccount.lastUsedAt # Null
                         THEN existingAccount.lastUsedAt ELSE @,
          !.status = IF existingAccount.status = "cooldown" THEN "cooldown" ELSE @]
  ELSE account

\* Lines 197-206: runtime counters and a cooldown survive the reload.
carryOver(account, accs) ==
  IF HasId(accs, account.id)
  THEN LET existingAccount == MapGet(accs, account.id) IN
       [account EXCEPT
          !.requestCount = existingAccount.requestCount,
          !.errorCount = existingAccount.errorCount,
          !.lastUsedAt = IF existingAccount.lastUsedAt # Null
                         THEN existingAccount.lastUsedAt ELSE @,
          !.status = IF existingAccount.status = "cooldown" THEN "cooldown" ELSE @]
  ELSE account

\* Lines 119-139: the existing manager object takes the new credentials,
\* and their access token when they have one.
mergeTokenManager(existing, credentials) ==
  [existing EXCEPT !.refreshToken = credentials.refreshToken,
                   !.accessToken = IF credentials.accessToken # Null
                                   THEN credentials.accessToken ELSE @]

\* Lines 208-213.
nextTokenManager(tms, id, credentials) ==
  IF id \in DOMAIN tms THEN mergeTokenManager(tms[id], credentials)
  ELSE NewTokenManager(id, credentials)

\* Lines 190-216: the loop over the parsed records.  A manager the pool
\* holds is merged in place, so a later record of the same id finds it merged.
RECURSIVE buildNext(_, _, _)
buildNext(p, parsed, next) ==
  IF parsed = <<>> THEN next
  ELSE LET raw == Head(parsed) IN
       IF ~normalizable(raw) THEN buildNext(p, Tail(parsed), next)
       ELSE LET account == carryOver(normalizeSharedAccount(raw), p.accounts)
                manager == nextTokenManager(p.tokenManagers, account.id,
                                            normalizeSharedCredentials(raw)) IN
            buildNext([p EXCEPT !.tokenManagers =
                         IF account.id \in DOMAIN @ THEN TmSet(@, account.id, manager) ELSE @],
                      Tail(parsed),
                      [accounts |-> MapSet(next.accounts, account),
                       tokenManagers |-> TmSet(next.tokenManagers, account.id, manager)])

\* A swap that replaces the accounts map and leaves the token managers.
swapAccountsOnly(p, parsed, mtimeMs) ==
  LET next == buildNext(p, parsed, [accounts |-> <<>>, tokenManagers |-> EmptyMap]) IN
  [p EXCEPT !.accounts = next.accounts,
            !.sharedAccountsMtimeMs = mtimeMs]

\* Lines 190-220: the new maps are built and swapped in.
swapAccounts(p, parsed, mtimeMs) ==
  LET next == buildNext(p, parsed, [accounts |-> <<>>, tokenManagers |-> EmptyMap]) IN
  [p EXCEPT !.accounts = next.accounts,
            !.tokenManagers = next.tokenManagers,
            !.sharedAccountsMtimeMs = mtimeMs]

\* A missing file that resets the mtime and keeps the accounts.
clearOnMissingKeepAccounts(p) ==
  IF Len(p.accounts) > 0 THEN [p EXCEPT !.sharedAccountsMtimeMs = 0] ELSE p

\* Lines 167-175: the file is gone.
clearOnMissing(p) ==
  IF Len(p.accounts) > 0
  THEN [p EXCEPT !.accounts = <<>>, !.tokenManagers = EmptyMap,
                 !.sharedAccountsMtimeMs = 0]
  ELSE p

NoSync == [pc |-> "none", force |-> FALSE, mtimeMs |-> 0]

\* A syncSharedAccounts that does not look for a sync in flight.
syncSharedAccountsAlways(p, force) ==
  IF ~p.sharedMode THEN p
  ELSE [p EXCEPT !.sharedSyncPromise = [pc |-> "stat", force |-> force, mtimeMs |-> 0]]

\* Lines 141-159 of syncSharedAccounts: nothing outside shared mode, an
\* in-flight sync is shared, otherwise _syncSharedAccountsInner runs up to
\* its `await fs.stat`.
syncSharedAccounts(p, force) ==
  IF ~p.sharedMode \/ p.sharedSyncPromise.pc # "none" THEN p
  ELSE [p EXCEPT !.sharedSyncPromise = [pc |-> "stat", force |-> force, mtimeMs |-> 0]]

\* Line 179.
unchangedFile(p, mtimeMs) ==
  ~p.sharedSyncPromise.force /\ p.sharedAccountsMtimeMs >= mtimeMs

(* ------------------------------- inputs -------------------------------- *)

RawRecord(id, rawStatus, refreshToken) ==
  [id |-> id, status |-> rawStatus, refreshToken |-> refreshToken, lastUsedAt |-> Null,
   accessToken |-> Null, usage |-> Null]

\* A record whose producer has written lastUsedAt, an access token and a
\* usage snapshot.
UsedRecord(raw) ==
  [raw EXCEPT !.lastUsedAt = FileIso, !.accessToken = FileToken, !.usage = FileUsage]

\* Sample contents of the shared file: JSON arrays of records, JSON that is
\* not an array, and text that is not JSON.
ArrayFile(records) == [kind |-> "array", records |-> records]

SampleFiles ==
  { ArrayFile(<<RawRecord("A", {}, TRUE)>>),
    ArrayFile(<<RawRecord("A", {}, TRUE), UsedRecord(RawRecord("B", {}, TRUE))>>),
    ArrayFile(<<RawRecord("B", {"\\u7981\\u7528"}, TRUE), RawRecord("A", {"ban"}, TRUE),
                RawRecord("B", {}, FALSE)>>),
    [kind |-> "garbage", records |-> <<>>] }

MissingFile == [exists |-> FALSE, mtimeMs |-> 0, content |-> ArrayFile(<<>>)]


\* Sample contents of the accounts table when the process starts.
PopulatedDb ==
  [present |-> TRUE, rows |-> <<newAccount("A", TRUE), newAccount("B", TRUE)>>,
   pending |-> <<>>]

SampleDbs == {NoDb, PopulatedDb}

\* Sample arguments of addAccount: id and credentials.refreshToken.
SampleNewAccounts ==
  { [id |-> "A", refreshToken |-> TRUE],
    [id |-> "B", refreshToken |-> TRUE],
    [id |-> "B", refreshToken |-> FALSE] }

(* ------------------------------- state --------------------------------- *)

NoPicks == [i \in Ids |-> 0]

\* Lines 63-78: the constructor, with config.sharedAccountsFile set or not.
newPool(shared) ==
  [accounts |-> <<>>, tokenManagers |-> EmptyMap,
   strategy |-> "round-robin", roundRobinIndex |-> 0,
   sharedMode |-> shared, sharedSyncTimer |-> FALSE,
   sharedSyncPromise |-> NoSync, sharedAccountsMtimeMs |-> 0]

\* No client call is modelled next to the pool's operations.
NoCall == [pc |-> "none"]

\* The bounds of a run, and the contents the writers of the shared file give
\* it.
Limits(maxCount, maxErrors, maxWaiters, maxMtimeMs, maxBusy) ==
  [count |-> maxCount, errors |-> maxErrors, waiters |-> maxWaiters,
   mtimeMs |-> maxMtimeMs, busy |-> maxBusy, files |-> SampleFiles]

InitRest ==
  /\ call = NoCall
  /\ timers = <<>>
  /\ detached = NoDetached
  /\ waiters = <<>>
  /\ ready = <<>>
  /\ phase = "new"
  /\ usageCalls = <<>>
  /\ hist = [picked |-> NoPicks, rr |-> 0]

\* A pool that is given no shared file and no database.
Init ==
  /\ pool = newPool(FALSE)
  /\ db = NoDb
  /\ file = MissingFile
  /\ limits = Limits(MaxCount, MaxErrors, MaxWaiters, MaxMtimeMs, MaxBusy)
  /\ InitRest

\* A pool over the database.
InitDb ==
  /\ pool = newPool(FALSE)
  /\ db = PopulatedDb
  /\ file = MissingFile
  /\ limits = Limits(DbCount, MaxErrors, MaxWaiters, MaxMtimeMs, DbBusy)
  /\ InitRest

\* A pool that is given no shared file, with or without a database.
InitCooldown ==
  /\ pool = newPool(FALSE)
  /\ db = NoDb
  /\ file = MissingFile
  /\ limits = Limits(CooldownCount, MaxRepeats, MaxWaiters, MaxMtimeMs, CooldownBusy)
  /\ InitRest

\* A pool over the shared accounts file, with a database it must not write.
InitShared ==
  /\ pool = newPool(TRUE)
  /\ db = PopulatedDb
  /\ file \in {MissingFile} \cup
              {[exists |-> TRUE, mtimeMs |-> 1, content |-> c] : c \in SampleFiles}
  /\ limits = Limits(SharedCount, MaxErrors, SharedWaiters, MaxMtimeMs, SharedBusy)
  /\ InitRest

\* A task (request handler, timer, I/O callback) starts only when the
\* microtask queue is empty.  Nothing makes a caller wait for load().
CanRun == ready = <<>>

ResetPicks(ids) == [hist EXCEPT !.picked = [i \in Ids |-> IF i \in ids THEN 0 ELSE @[i]]]

\* The objects stored under ids leave the map: timers keep what they captured.
Detach(ids) ==
  detachAll([timers |-> timers, detached |-> detached],
            SelectSeq(pool.accounts, LAMBDA a : a.id \in ids))

\* Lines 246-271: the accounts load() makes of the database rows.
RECURSIVE loadRows(_, _)
loadRows(p, rows) ==
  IF rows = <<>> THEN p
  ELSE loadRows([p EXCEPT !.accounts = MapSet(@, Head(rows)),
                          !.tokenManagers = TmSet(@, Head(rows).id,
                             NewTokenManager(Head(rows).id,
                                             Credentials(Head(rows).refreshToken, Null)))],
                Tail(rows))

\* The ids of the rows load() reads.
loadedIds(d) == IF d.present THEN KeysOf(d.rows) ELSE {}

RECURSIVE SumOf(_, _)
SumOf(accs, field) ==
  IF accs = <<>> THEN 0 ELSE Head(accs)[field] + SumOf(Tail(accs), field)

\* getStats().totalRequests and .totalErrors, lines 564-565.
totalRequests(p) == SumOf(p.accounts, "requestCount")
totalErrors(p) == SumOf(p.accounts, "errorCount")

\* The managers with a refresh in flight or a refreshed token.
Refreshed(p) ==
  {id \in DOMAIN p.tokenManagers :
     p.tokenManagers[id].refreshing \/ p.tokenManagers[id].accessToken = FreshToken}

\* getStats().invalid, line 562.
Invalidated == Len(SelectSeq(pool.accounts, LAMBDA a : a.status = "invalid"))

\* What the callers of the pool have left in it: requests and errors counted,
\* timers and writes pending, continuations waiting, accounts invalid, a
\* strategy other than the default.
Busy ==
  totalRequests(pool) + totalErrors(pool) + Len(timers) + Len(db.pending) + Len(waiters)
    + Invalidated + (IF pool.strategy = "round-robin" THEN 0 ELSE 1)

\* A call that leaves n more is made while the pool is not too busy.
Budget(n) == Busy + n <= limits.busy

\* A usage refresh is in flight or has written its snapshot.
UsageTaken ==
  \/ usageCalls # <<>>
  \/ \E i \in 1..Len(pool.accounts) : pool.accounts[i].usage = FreshUsage
  \/ \E i \in 1..Len(db.rows) : db.rows[i].usage = FreshUsage

\* A call that leaves n more is made while the pool is not too busy and no
\* usage has been refreshed.
Room(n) == Refreshed(pool) = {} /\ ~UsageTaken /\ Budget(n)

\* The usage is refreshed on a pool that is idle but for its invalid accounts.
RefreshRoom == Refreshed(pool) = {} /\ ~UsageTaken /\ Busy = Invalidated

\* load() is called again, on a shared pool whose sync loop runs, only while
\* the pool is small.
ReloadRoom ==
  pool.sharedMode /\ pool.sharedSyncTimer =>
    Len(pool.accounts) + totalRequests(pool) + totalErrors(pool) + Len(waiters) < MaxReload

\* Lines 235-277: load(), from the answer of `await fs.mkdir` (line 237) on;
\* nothing is read or written before it, and nothing keeps it from being
\* called again.  made = FALSE: fs.mkdir rejects and the catch of lines
\* 273-275 ends load() with nothing loaded, no sync started and no sync
\* loop.  Otherwise shared mode awaits a forced sync, the one in flight if
\* there is one (line 240), and the rest of load() is queued behind it; and
\* database mode sets one new object per row (lines 246-271), which takes
\* the place of an object already stored under the same id.
Load(made) ==
  /\ CanRun
  /\ IF ~made
     THEN /\ phase' = "ready"
          /\ UNCHANGED <<pool, db, timers, detached, usageCalls, hist, waiters>>
     ELSE IF pool.sharedMode
     THEN /\ Len(waiters) < limits.waiters
          /\ Room(1)
          /\ ReloadRoom
          /\ pool' = syncSharedAccounts(pool, TRUE)
          /\ waiters' = Append(waiters, Waiter("load", Null, NoLoop))
          /\ phase' = IF phase = "new" THEN "loading" ELSE phase
          /\ UNCHANGED <<db, timers, detached, usageCalls, hist>>
     ELSE /\ pool' = IF db.present THEN loadRows(pool, db.rows) ELSE pool
          /\ db' = orphanWrites(db, pool.accounts, loadedIds(db))
          /\ timers' = Detach(loadedIds(db)).timers
          /\ detached' = Detach(loadedIds(db)).detached
          /\ usageCalls' = orphanCalls(usageCalls, loadedIds(db), loadedIds(db))
          /\ hist' = ResetPicks(loadedIds(db))
          /\ phase' = "ready"
          /\ UNCHANGED waiters
  /\ UNCHANGED <<file, ready>>
  /\ UNCHANGED <<limits, call>>

(* ------------------------------ selection ------------------------------ *)

\* The values Math.floor(Math.random() * available.length) can take.
RandomChoices(p) ==
  IF p.strategy = "random" /\ Len(available(p.accounts)) > 0
  THEN 0..(Len(available(p.accounts)) - 1) ELSE {0}

\* The synchronous part of selectAccount, lines 399-435.  The database
\* write of lines 421-428 is only queued here, with setImmediate.
SelectBody ==
  \E rnd \in RandomChoices(pool) :
    LET r == selectAccount(pool, rnd) IN
    /\ pool' = r.pool
    /\ db' = IF r.id # Null /\ WritesDb(pool, db)
             THEN [db EXCEPT !.pending = Append(@, Immediate(r.id))]
             ELSE db
    /\ hist' = IF r.id = Null THEN hist
               ELSE [picked |-> [hist.picked EXCEPT ![r.id] = @ + 1],
                     rr |-> IF pool.strategy \in {"random", "least-used"}
                            THEN hist.rr ELSE hist.rr + 1]
    /\ UNCHANGED <<timers, detached, usageCalls, file, phase>>

\* load() has not completed, or it has failed and startSharedSyncLoop() was
\* not called since.
Unloaded ==
  \/ phase = "new"
  \/ pool.sharedMode /\ phase = "ready" /\ ~pool.sharedSyncTimer

\* The callers of a pool that has not been loaded find it small.
EarlyRoom ==
  Unloaded =>
    Len(pool.accounts) + totalRequests(pool) + totalErrors(pool) + Len(waiters) < MaxEarly

\* A request handler calls the pool.
CanCall == CanRun /\ EarlyRoom

\* Continuations queued behind the in-flight sync that will select.
PendingSelects == Len(SelectSeq(waiters, LAMBDA w : w.op = "selectAccount"))

SelectRoom ==
  /\ pool.roundRobinIndex + PendingSelects < limits.count
  /\ totalRequests(pool) + PendingSelects < limits.count
  /\ Len(db.pending) < limits.count

\* Lines 395-397, 506-508, 524-526: `await this.syncSharedAccounts()` queues
\* the rest of the handler behind the (possibly just started) sync.
AwaitSync(op, id) ==
  /\ Len(waiters) < limits.waiters
  /\ pool' = syncSharedAccounts(pool, FALSE)
  /\ waiters' = Append(waiters, Waiter(op, id, NoLoop))
  /\ UNCHANGED <<db, timers, detached, usageCalls, file, ready, phase, hist>>

\* Lines 394-435: selectAccount().
SelectAccount ==
  /\ CanCall
  /\ SelectRoom
  /\ Room(IF WritesDb(pool, db) THEN 2 ELSE 1)
  /\ IF pool.sharedMode THEN AwaitSync("selectAccount", Null)
     ELSE SelectBody /\ UNCHANGED <<waiters, ready>>
  /\ UNCHANGED <<limits, call>>

\* Lines 422-427: a callback queued by selectAccount runs, in a later turn of
\* the event loop; the callbacks run in the order they were queued.
SelectImmediate ==
  /\ CanRun
  /\ db.pending # <<>>
  /\ db' = writeSelected(db, pool.accounts)
  /\ UNCHANGED <<pool, timers, detached, usageCalls, file, waiters, ready, phase, hist>>
  /\ UNCHANGED <<limits, call>>

\* Lines 544-546: setStrategy().
SetStrategy(s) ==
  /\ CanCall
  /\ (s # "round-robin" /\ pool.strategy = "round-robin") => Room(1)
  /\ pool' = setStrategy(pool, s)
  /\ UNCHANGED <<db, timers, detached, usageCalls, file, waiters, ready, phase, hist>>
  /\ UNCHANGED <<limits, call>>

\* Lines 327-342: listAccounts() starts a sync in shared mode, does not await
\* it, and reads the accounts as they are.
ListAccounts ==
  /\ CanCall
  /\ pool' = syncSharedAccounts(pool, FALSE)
  /\ UNCHANGED <<db, timers, detached, usageCalls, file, waiters, ready, phase, hist>>
  /\ UNCHANGED <<limits, call>>

\* Lines 552-567: getStats() does the same and counts the accounts.
GetStats ==
  /\ CanCall
  /\ pool' = syncSharedAccounts(pool, FALSE)
  /\ UNCHANGED <<db, timers, detached, usageCalls, file, waiters, ready, phase, hist>>
  /\ UNCHANGED <<limits, call>>

(* ------------------------------ usage refresh -------------------------- *)

\* Lines 349-356, the part of refreshAccountUsage(id) after the sync, up to
\* `await tm.ensureValidToken()`: null for an id the pool does not hold (line
\* 350); a missing manager throws into the catch of lines 373-376; otherwise
\* the manager under id is asked for its token, and the call waits for the
\* refresh it starts or finds in flight, or goes on to checkUsageLimits with
\* the cached token.
refreshAccountUsage(p, id, expired) ==
  IF HasId(p.accounts, id) /\ id \in DOMAIN p.tokenManagers
  THEN LET tm == ensureValidToken(p.tokenManagers[id], expired) IN
       [pool |-> [p EXCEPT !.tokenManagers[id] = tm],
        calls |-> << UsageCall(id, IF tm.refreshing THEN "token" ELSE "usage", NoLoop) >>]
  ELSE [pool |-> p, calls |-> <<>>]

\* Lines 384-385: the index, in the Map the pool holds, of the next entry the
\* iterator gives whose account is not invalid; 0 when there is none.
nextVisited(accs, at) ==
  IF \E j \in (at + 1)..Len(accs) : accs[j].status # "invalid"
  THEN CHOOSE j \in (at + 1)..Len(accs) :
         /\ accs[j].status # "invalid"
         /\ \A k \in (at + 1)..(j - 1) : accs[k].status = "invalid"
  ELSE 0

\* Lines 384-386: the id the loop calls refreshAccountUsage with next, and
\* the iterator after it; Null when the loop ends or there is no loop.
nextCall(p, loop) ==
  IF ~loop.on THEN [id |-> Null, loop |-> NoLoop]
  ELSE IF loop.live
  THEN LET j == nextVisited(p.accounts, loop.at) IN
       IF j = 0 THEN [id |-> Null, loop |-> NoLoop]
       ELSE [id |-> p.accounts[j].id, loop |-> [loop EXCEPT !.at = j]]
  ELSE IF loop.rest = <<>> THEN [id |-> Null, loop |-> NoLoop]
  ELSE [id |-> Head(loop.rest), loop |-> [loop EXCEPT !.rest = Tail(@)]]

\* Lines 384-390: the loop of refreshAllUsage goes on from its iterator, up
\* to its next await.  In shared mode the call it makes awaits a sync (lines
\* 345-347), started here if none is in flight; otherwise the call runs up
\* to its await of the token, and a call that returns at once is followed by
\* the next.
RECURSIVE refreshNext(_, _, _)
refreshNext(p, loop, expired) ==
  LET next == nextCall(p, loop) IN
  IF next.id = Null THEN [pool |-> p, calls |-> <<>>, waiters |-> <<>>]
  ELSE IF p.sharedMode
  THEN [pool |-> syncSharedAccounts(p, FALSE), calls |-> <<>>,
        waiters |-> << Waiter("refreshAccountUsage", next.id, next.loop) >>]
  ELSE LET r == refreshAccountUsage(p, next.id, expired) IN
       IF r.calls = <<>> THEN refreshNext(p, next.loop, expired)
       ELSE [pool |-> r.pool, calls |-> << [r.calls[1] EXCEPT !.loop = next.loop] >>,
             waiters |-> <<>>]

\* Lines 349-356 for a call resumed behind its sync, made by the loop with
\* this iterator (NoLoop for a call of its own).  When the call returns at
\* once, the loop that awaits it (line 387) is resumed behind the
\* continuations that are queued already.
refreshStarted(p, id, loop, expired) ==
  LET r == refreshAccountUsage(p, id, expired) IN
  IF r.calls = <<>>
  THEN [pool |-> p, calls |-> <<>>, waiters |-> <<>>,
        resumed |-> IF loop.on THEN << Waiter("refreshLoop", Null, loop) >> ELSE <<>>]
  ELSE [pool |-> r.pool, calls |-> << [r.calls[1] EXCEPT !.loop = loop] >>,
        waiters |-> <<>>, resumed |-> <<>>]

\* The pool, the calls in flight and the queue after a step r of a refresh.
Refreshing(calls, r) ==
  /\ pool' = r.pool
  /\ usageCalls' = calls \o r.calls
  /\ waiters' = waiters \o r.waiters

\* Lines 349-356 with the continuations rest queued behind the call.
RefreshBody(id, loop, rest) ==
  /\ \E expired \in BOOLEAN :
       \E r \in {refreshStarted(pool, id, loop, expired)} :
         /\ Refreshing(usageCalls, r)
         /\ ready' = rest \o r.resumed
  /\ UNCHANGED <<db, timers, detached, file, phase, hist>>

\* Lines 384-390: the loop of refreshAllUsage goes on behind a call that
\* returned at once.
RefreshLoopBody(loop) ==
  /\ \E expired \in BOOLEAN :
       Refreshing(usageCalls, refreshNext(pool, loop, expired))
  /\ UNCHANGED <<db, timers, detached, file, phase, hist>>

\* Lines 344-377: refreshAccountUsage(id), up to its first await.
RefreshAccountUsage(id) ==
  /\ CanCall
  /\ RefreshRoom
  /\ IF pool.sharedMode THEN AwaitSync("refreshAccountUsage", id)
     ELSE RefreshBody(id, NoLoop, ready)
  /\ UNCHANGED <<limits, call>>

\* Lines 383-391, the part of refreshAllUsage after the sync, up to its first
\* await.
RefreshAllBody ==
  /\ \E expired \in BOOLEAN :
       Refreshing(usageCalls, refreshNext(pool, NewLoop, expired))
  /\ UNCHANGED <<db, timers, detached, file, phase, hist>>

\* Lines 379-392: refreshAllUsage(), up to its first await.
RefreshAllUsage ==
  /\ CanCall
  /\ RefreshRoom
  /\ IF pool.sharedMode THEN AwaitSync("refreshAllUsage", Null)
     ELSE RefreshAllBody /\ UNCHANGED ready
  /\ UNCHANGED <<limits, call>>

\* Line 356: the refresh the i-th call awaits ends.  ok: the manager caches
\* the new token and the call goes on to checkUsageLimits (line 357);
\* otherwise ensureValidToken throws, the catch of lines 373-376 returns the
\* error and the loop that made the call goes on.  A manager that has left
\* the map ends its refresh unseen.  RefreshRoom lets one call be in flight
\* at a time, so that no other call awaits the same refresh.
RefreshEnds(i, ok) ==
  /\ CanRun
  /\ i \in 1..Len(usageCalls)
  /\ usageCalls[i].pc = "token"
  /\ LET c == usageCalls[i]
         p == IF c.manager
              THEN [pool EXCEPT !.tokenManagers[c.id] = refreshEnded(@, ok)]
              ELSE pool IN
     IF ok
     THEN /\ pool' = p
          /\ usageCalls' = [usageCalls EXCEPT ![i].pc = "usage"]
          /\ UNCHANGED waiters
     ELSE \E expired \in BOOLEAN :
            Refreshing(RemoveAt(usageCalls, i), refreshNext(p, c.loop, expired))
  /\ UNCHANGED <<db, timers, detached, file, ready, phase, hist>>
  /\ UNCHANGED <<limits, call>>

\* Lines 359-367: account.usage is assigned on the object the call captured
\* at line 349, which the map may no longer hold.
assignUsage(p, c) ==
  IF c.account
  THEN [p EXCEPT !.accounts[IndexOfId(p.accounts, c.id)].usage = FreshUsage]
  ELSE p

\* Lines 357-376: checkUsageLimits answers the i-th call.  ok: the snapshot
\* is assigned to the captured account and, when the pool writes the
\* database, to the row of the id (lines 370-372); otherwise the catch
\* returns the error and nothing is written.  Either way the loop that made
\* the call goes on.
CheckUsageLimits(i, ok) ==
  /\ CanRun
  /\ i \in 1..Len(usageCalls)
  /\ usageCalls[i].pc = "usage"
  /\ \E expired \in BOOLEAN :
       Refreshing(RemoveAt(usageCalls, i),
                  refreshNext(IF ok THEN assignUsage(pool, usageCalls[i]) ELSE pool,
                              usageCalls[i].loop, expired))
  /\ db' = IF ok /\ WritesDb(pool, db)
           THEN dbUpdateAccount(db, usageCalls[i].id, [usage |-> FreshUsage])
           ELSE db
  /\ UNCHANGED <<timers, detached, file, ready, phase, hist>>
  /\ UNCHANGED <<limits, call>>

(* -------------------------- outcome recording -------------------------- *)

\* Lines 437-461: recordError(id, isRateLimit).
RecordError(id, isRateLimit) ==
  /\ CanCall
  /\ HasId(pool.accounts, id) =>
       /\ totalErrors(pool) < limits.errors
       /\ isRateLimit => Len(timers) < limits.errors
       /\ Room(IF isRateLimit THEN 2 ELSE 1)
  /\ pool' = recordError(pool, id, isRateLimit)
  /\ timers' = IF HasId(pool.accounts, id) /\ isRateLimit
               THEN Append(timers, Timer(id)) ELSE timers
  /\ db' = IF HasId(pool.accounts, id) /\ WritesDb(pool, db)
           THEN dbUpdateAccount(db, id,
                  [errorCount |-> MapGet(pool'.accounts, id).errorCount,
                   status |-> MapGet(pool'.accounts, id).status])
           ELSE db
  /\ UNCHANGED <<detached, usageCalls, file, waiters, ready, phase, hist>>
  /\ UNCHANGED <<limits, call>>

\* Lines 444-451: the timeout set by recordError fires, 5 minutes later.
\* Timeouts of one delay fire in the order they were set.
CooldownTimer ==
  /\ CanRun
  /\ timers # <<>>
  /\ LET t == Head(timers)
         before == IF t.obj = 0 THEN StatusOf(pool.accounts, t.id) ELSE detached[t.obj]
         after == cooldownExpired(before)
     IN /\ pool' = IF t.obj = 0
                   THEN [pool EXCEPT !.accounts = setStatus(@, t.id, after)]
                   ELSE pool
        /\ detached' = collect(Tail(timers),
                               IF t.obj = 0 THEN detached
                               ELSE [detached EXCEPT ![t.obj] = after])
        /\ db' = IF before = "cooldown" /\ WritesDb(pool, db)
                 THEN dbUpdateAccount(db, t.id, [status |-> "active"])
                 ELSE db
  /\ timers' = Tail(timers)
  /\ UNCHANGED <<usageCalls, file, waiters, ready, phase, hist>>
  /\ UNCHANGED <<limits, call>>

\* Lines 463-471: markInvalid(id).
MarkInvalid(id) ==
  /\ CanCall
  /\ (HasId(pool.accounts, id) /\ StatusOf(pool.accounts, id) # "invalid") => Budget(1)
  /\ pool' = markInvalid(pool, id)
  /\ db' = IF HasId(pool.accounts, id) /\ WritesDb(pool, db)
           THEN dbUpdateAccount(db, id, [status |-> "invalid"]) ELSE db
  /\ UNCHANGED <<timers, detached, usageCalls, file, waiters, ready, phase, hist>>
  /\ UNCHANGED <<limits, call>>

(* --------------------------- enable / disable -------------------------- *)

\* Lines 473-487: enableAccount(id).
EnableAccount(id) ==
  /\ CanCall
  /\ pool' = enableAccount(pool, id).pool
  /\ db' = IF enableAccount(pool, id).result /\ db.present
           THEN dbUpdateAccount(db, id, [status |-> "active"]) ELSE db
  /\ UNCHANGED <<timers, detached, usageCalls, file, waiters, ready, phase, hist>>
  /\ UNCHANGED <<limits, call>>

\* Lines 489-503: disableAccount(id).
DisableAccount(id) ==
  /\ CanCall
  /\ pool' = disableAccount(pool, id).pool
  /\ db' = IF disableAccount(pool, id).result /\ db.present
           THEN dbUpdateAccount(db, id, [status |-> "disabled"]) ELSE db
  /\ UNCHANGED <<timers, detached, usageCalls, file, waiters, ready, phase, hist>>
  /\ UNCHANGED <<limits, call>>

(* ------------------------------ recovery ------------------------------- *)

\* Lines 510-520, the part of recoverCooldown after the sync.
RecoverCooldownBody(id) ==
  /\ pool' = recoverCooldown(pool, id).pool
  /\ db' = IF HasId(pool.accounts, id) /\ StatusOf(pool.accounts, id) = "cooldown"
              /\ WritesDb(pool, db)
           THEN dbUpdateAccount(db, id, [status |-> "active"]) ELSE db
  /\ UNCHANGED <<timers, detached, usageCalls, file, phase, hist>>

\* Lines 505-521: recoverCooldown(id).
RecoverCooldown(id) ==
  /\ CanCall
  /\ pool.sharedMode => Room(1)
  /\ IF pool.sharedMode THEN AwaitSync("recoverCooldown", id)
     ELSE RecoverCooldownBody(id) /\ UNCHANGED <<waiters, ready>>
  /\ UNCHANGED <<limits, call>>

\* Lines 528-541, the part of recoverAllCooldowns after the sync.
RecoverAllBody ==
  /\ pool' = recoverAllCooldowns(pool).pool
  /\ db' = IF WritesDb(pool, db) THEN dbRecoverAll(db, pool.accounts) ELSE db
  /\ UNCHANGED <<timers, detached, usageCalls, file, phase, hist>>

\* Lines 523-542: recoverAllCooldowns().
RecoverAllCooldowns ==
  /\ CanCall
  /\ pool.sharedMode => Room(1)
  /\ IF pool.sharedMode THEN AwaitSync("recoverAllCooldowns", Null)
     ELSE RecoverAllBody /\ UNCHANGED <<waiters, ready>>
  /\ UNCHANGED <<limits, call>>

(* ----------------------------- add / remove ---------------------------- *)

\* The timers, the queued writes, the calls in flight and the history when
\* the objects stored under ids have left the map.
Orphaned(st, calls) ==
  /\ timers' = st.timers
  /\ detached' = st.detached
  /\ usageCalls' = calls

\* Lines 283-312: addAccount(account, skipValidation).
AddAccount(account, skipValidation, valid) ==
  /\ CanCall
  /\ \E r \in {addAccount(pool, account.id, account.refreshToken, skipValidation, valid)} :
       IF r.threw
       THEN UNCHANGED <<pool, db, timers, detached, usageCalls, hist>>
       ELSE /\ pool' = r.pool
            /\ db' = IF db.present
                     THEN dbInsertAccount(orphanWrites(db, pool.accounts, {account.id}),
                                          newAccount(account.id, account.refreshToken))
                     ELSE db
            /\ Orphaned(Detach({account.id}),
                        orphanCalls(usageCalls, {account.id}, {account.id}))
            /\ hist' = ResetPicks({account.id})
  /\ UNCHANGED <<file, waiters, ready, phase>>
  /\ UNCHANGED <<limits, call>>

\* Lines 314-325: removeAccount(id).  The manager is deleted whether or not
\* the account was there (line 320).
RemoveAccount(id) ==
  /\ CanCall
  /\ \E r \in {removeAccount(pool, id)} :
       /\ pool' = r.pool
       /\ db' = IF r.result /\ db.present
                THEN dbDeleteAccounts(orphanWrites(db, pool.accounts, {id}), {id}) ELSE db
       /\ Orphaned(IF r.result THEN Detach({id})
                   ELSE [timers |-> timers, detached |-> detached],
                   withLoops(orphanCalls(usageCalls,
                                         KeysOf(pool.accounts) \ KeysOf(r.pool.accounts),
                                         DOMAIN pool.tokenManagers \ DOMAIN r.pool.tokenManagers),
                             LAMBDA loop : loopAfterDelete(loop, pool.accounts,
                                                           IF r.result THEN {id} ELSE {})))
       /\ hist' = IF r.result THEN ResetPicks({id}) ELSE hist
  /\ UNCHANGED <<file, waiters, ready, phase>>
  /\ UNCHANGED <<limits, call>>

\* Lines 595-611: removeAccounts(ids).
RemoveAccounts(ids) ==
  /\ CanCall
  /\ \E r \in {removeAccounts(pool, ids)} :
     \E gone \in {KeysOf(pool.accounts) \ KeysOf(r.pool.accounts)} :
       /\ pool' = r.pool
       /\ db' = IF r.removed > 0 /\ db.present
                THEN dbDeleteAccounts(orphanWrites(db, pool.accounts, gone), ids) ELSE db
       /\ Orphaned(Detach(gone),
                   withLoops(orphanCalls(usageCalls, gone, gone),
                             LAMBDA loop : loopAfterDelete(loop, pool.accounts, gone)))
       /\ hist' = ResetPicks(gone)
  /\ UNCHANGED <<file, waiters, ready, phase>>
  /\ UNCHANGED <<limits, call>>

(* ------------------------ shared-file synchronizer --------------------- *)

\* A failure that empties the pool, as a missing file does.
syncFailedClearing(p) == clearOnMissing(p)

\* Lines 150-153: the error of a failed sync is caught and logged; nothing of
\* the pool was assigned before the throw.
syncFailed(p) == p

\* Lines 151-156: the sync settles; the handle is cleared (line 155) and the
\* awaiting continuations become runnable in the order they registered.
Resume(p, resumed) ==
  /\ pool' = [p EXCEPT !.sharedSyncPromise = NoSync]
  /\ ready' = resumed
  /\ waiters' = <<>>
  /\ UNCHANGED phase

\* The sync settles with the maps as they were.
Settle(p) == Resume(p, waiters)

KeepPicks(p) ==
  [hist EXCEPT !.picked = [i \in Ids |->
     IF i \in KeysOf(pool.accounts) \cap KeysOf(p.accounts) THEN @[i] ELSE 0]]

\* The old account objects leave the map when it is cleared or swapped, and
\* the iterators of the loops that wait move as Moved tells.
Replace(p, Moved(_)) ==
  /\ timers' = Detach(KeysOf(pool.accounts)).timers
  /\ detached' = Detach(KeysOf(pool.accounts)).detached
  /\ usageCalls' = withLoops(orphanCalls(usageCalls, KeysOf(pool.accounts),
                                         DOMAIN pool.tokenManagers \ DOMAIN p.tokenManagers),
                             Moved)
  /\ hist' = KeepPicks(p)
  /\ Resume(p, withLoops(waiters, Moved))

\* Lines 162-181: fs.stat answers.  rejected: it rejects with an error other
\* than ENOENT (EACCES, EIO), whatever the file is; line 176 rethrows it and
\* the sync ends in the catch of lines 150-153.
SyncStat(rejected) ==
  /\ ready = <<>>
  /\ pool.sharedSyncPromise.pc = "stat"
  /\ IF rejected
     THEN Settle(syncFailed(pool)) /\ UNCHANGED <<timers, detached, usageCalls, hist>>
     ELSE IF ~file.exists
     THEN IF Len(pool.accounts) > 0 THEN Replace(clearOnMissing(pool), loopAfterClear)
          ELSE Settle(pool) /\ UNCHANGED <<timers, detached, usageCalls, hist>>
     ELSE IF unchangedFile(pool, file.mtimeMs)
     THEN Settle(pool) /\ UNCHANGED <<timers, detached, usageCalls, hist>>
     ELSE /\ pool' = [pool EXCEPT !.sharedSyncPromise.pc = "read",
                                  !.sharedSyncPromise.mtimeMs = file.mtimeMs]
          /\ UNCHANGED <<timers, detached, usageCalls, hist, waiters, ready, phase>>
  /\ UNCHANGED <<db, file>>
  /\ UNCHANGED <<limits, call>>

\* Lines 183-222: fs.readFile answers; JSON.parse and the array check may
\* throw.  rejected: fs.readFile rejects whatever the file is (EACCES, EIO).
SyncRead(rejected) ==
  /\ ready = <<>>
  /\ pool.sharedSyncPromise.pc = "read"
  /\ IF ~rejected /\ file.exists /\ file.content.kind = "array"
     THEN Replace(swapAccounts(pool, file.content.records,
                               pool.sharedSyncPromise.mtimeMs),
                  LAMBDA loop : loopAfterSwap(loop, pool.accounts))
     ELSE Settle(syncFailed(pool)) /\ UNCHANGED <<timers, detached, usageCalls, hist>>
  /\ UNCHANGED <<db, file>>
  /\ UNCHANGED <<limits, call>>

\* Lines 225-233: startSharedSyncLoop() sets the interval timer of a pool
\* in shared mode that has none.
startSharedSyncLoop(p) ==
  IF ~p.sharedMode \/ p.sharedSyncTimer THEN p
  ELSE [p EXCEPT !.sharedSyncTimer = TRUE]

\* Lines 225-233: startSharedSyncLoop() called from outside, on a pool
\* loaded or not.
StartSharedSyncLoop ==
  /\ CanCall
  /\ pool' = startSharedSyncLoop(pool)
  /\ UNCHANGED <<db, timers, detached, usageCalls, file, waiters, ready, phase, hist>>
  /\ UNCHANGED <<limits, call>>

\* Lines 230-232: the interval timer of startSharedSyncLoop.
SharedSyncTimer ==
  /\ CanRun
  /\ pool.sharedSyncTimer
  /\ pool' = syncSharedAccounts(pool, FALSE)
  /\ UNCHANGED <<db, timers, detached, usageCalls, file, waiters, ready, phase, hist>>
  /\ UNCHANGED <<limits, call>>

\* Lines 241-242, the part of load() after the sync: startSharedSyncLoop
\* (lines 225-233) sets the interval timer unless one is set, and load()
\* resolves.
LoadBody ==
  /\ pool' = startSharedSyncLoop(pool)
  /\ phase' = "ready"
  /\ UNCHANGED <<db, timers, detached, usageCalls, file, hist>>

\* A continuation of the settled sync runs (lines 241-242, 349-376, 383-391,
\* 399-435, 510-520, 528-541).  Only the loop of refreshAllUsage calls the
\* synchronizer again, at line 345 of the call it makes: when it is entered
\* (line 384) and when it is resumed behind a call that returned at once
\* (line 387), which is after the continuations queued before that call ran.
RunReady ==
  /\ ready # <<>>
  /\ CASE Head(ready).op = "selectAccount" ->
            SelectBody /\ ready' = Tail(ready) /\ UNCHANGED waiters
       [] Head(ready).op = "recoverCooldown" ->
            RecoverCooldownBody(Head(ready).id) /\ ready' = Tail(ready) /\ UNCHANGED waiters
       [] Head(ready).op = "load" -> LoadBody /\ ready' = Tail(ready) /\ UNCHANGED waiters
       [] Head(ready).op = "refreshAccountUsage" ->
            RefreshBody(Head(ready).id, Head(ready).loop, Tail(ready))
       [] Head(ready).op = "refreshLoop" ->
            RefreshLoopBody(Head(ready).loop) /\ ready' = Tail(ready)
       [] Head(ready).op = "refreshAllUsage" -> RefreshAllBody /\ ready' = Tail(ready)
       [] Head(ready).op \in {"syncSharedAccounts", "syncSharedAccounts(true)"} ->
            /\ ready' = Tail(ready)
            /\ UNCHANGED <<pool, db, timers, detached, usageCalls, file, phase, hist, waiters>>
       [] OTHER -> RecoverAllBody /\ ready' = Tail(ready) /\ UNCHANGED waiters
  /\ UNCHANGED <<limits, call>>

\* Another process rewrites the shared file.
FileWrite(content, mtimeMs) ==
  /\ pool.sharedMode
  /\ ready = <<>>
  /\ Room(0)
  /\ file' = [exists |-> TRUE, mtimeMs |-> mtimeMs, content |-> content]
  /\ UNCHANGED <<pool, db, timers, detached, usageCalls, waiters, ready, phase, hist>>
  /\ UNCHANGED <<limits, call>>

\* Another process deletes the shared file.
FileDelete ==
  /\ pool.sharedMode
  /\ ready = <<>>
  /\ Room(0)
  /\ file.exists
  /\ file' = MissingFile
  /\ UNCHANGED <<pool, db, timers, detached, usageCalls, waiters, ready, phase, hist>>
  /\ UNCHANGED <<limits, call>>

(* ---------------------------- specification ---------------------------- *)

\* Lines 141-159: a caller awaits syncSharedAccounts(force).  Outside shared
\* mode the call returns at once (line 142); otherwise an in-flight sync is
\* returned to it as it is, and with none in flight a sync starts, forced
\* or not as the caller asks.
SyncSharedAccounts(force) ==
  /\ CanCall
  /\ IF pool.sharedMode
     THEN /\ Len(waiters) < limits.waiters
          /\ Room(1)
          /\ pool' = syncSharedAccounts(pool, force)
          /\ waiters' = Append(waiters, Waiter(IF force THEN "syncSharedAccounts(true)"
                                                ELSE "syncSharedAccounts",
                                                Null, NoLoop))
     ELSE UNCHANGED <<pool, waiters>>
  /\ UNCHANGED <<db, timers, detached, usageCalls, file, ready, phase, hist>>
  /\ UNCHANGED <<limits, call>>

\* The methods of the pool, each with every argument, and its timers.  The
\* methods left out (getStrategy, addLog, getRecentLogs, getLogStats, lines
\* 548-550 and 569-623) read the pool or use the logs table, which no
\* modelled operation reads.
PoolNext ==
  \/ \E made \in BOOLEAN : Load(made)
  \/ SelectAccount
  \/ \E s \in Strategies : SetStrategy(s)
  \/ ListAccounts
  \/ GetStats
  \/ \E id \in Ids : RefreshAccountUsage(id)
  \/ RefreshAllUsage
  \/ \E i \in 1..Len(usageCalls), ok \in BOOLEAN : RefreshEnds(i, ok)
  \/ \E i \in 1..Len(usageCalls), ok \in BOOLEAN : CheckUsageLimits(i, ok)
  \/ \E id \in Ids, isRateLimit \in BOOLEAN : RecordError(id, isRateLimit)
  \/ CooldownTimer
  \/ \E id \in Ids : MarkInvalid(id)
  \/ \E id \in Ids : EnableAccount(id)
  \/ \E id \in Ids : DisableAccount(id)
  \/ \E id \in Ids : RecoverCooldown(id)
  \/ RecoverAllCooldowns
  \/ \E account \in SampleNewAccounts, skipValidation \in BOOLEAN, valid \in BOOLEAN :
       AddAccount(account, skipValidation, valid)
  \/ \E id \in Ids : RemoveAccount(id)
  \/ \E ids \in SUBSET Ids : RemoveAccounts(ids)
  \/ \E force \in BOOLEAN : SyncSharedAccounts(force)
  \/ StartSharedSyncLoop

\* The sample files and a file whose only record has no refresh token, which
\* loads as an empty pool.
SyncFiles == SampleFiles \cup {ArrayFile(<<RawRecord("B", {}, FALSE)>>)}

\* The synchronizer, the continuations queued behind it and the file's other
\* writers: steps of a pool in shared mode only.
SyncNext ==
  \/ \E rejected \in BOOLEAN : SyncStat(rejected)
  \/ \E rejected \in BOOLEAN : SyncRead(rejected)
  \/ SharedSyncTimer
  \/ RunReady
  \/ \E content \in limits.files, mtimeMs \in 1..limits.mtimeMs : FileWrite(content, mtimeMs)
  \/ FileDelete

\* Without a database selectAccount queues no write (line 421).
Next == PoolNext

\* The pool without a database.
Spec == Init /\ [][Next]_vars

\* The pool's methods with the writes selectAccount queues.
NextDb == PoolNext \/ SelectImmediate

\* The pool over the database.
SpecDb == InitDb /\ [][NextDb]_vars

\* In shared mode selectAccount queues no write (line 421).
NextShared == PoolNext \/ SyncNext

\* The pool over the shared accounts file.
SpecShared == InitShared /\ [][NextShared]_vars

\* The pool with or without a database, with errors that repeat.
SpecCooldown == InitCooldown /\ [][Next]_vars

\* A pool over the shared accounts file without a database.
InitSync ==
  /\ pool = newPool(TRUE)
  /\ db = NoDb
  /\ file \in {MissingFile} \cup
              {[exists |-> TRUE, mtimeMs |-> 1, content |-> c] : c \in SampleFiles}
  /\ limits = [Limits(SyncCount, MaxErrors, MaxWaiters, MaxMtimeMs, SyncBusy)
                 EXCEPT !.files = SyncFiles]
  /\ InitRest

\* The synchronizer with all its callers.
SpecSync == InitSync /\ [][NextShared]_vars

\* A pool of either mode over the database.
InitModes ==
  /\ pool \in {newPool(FALSE), newPool(TRUE)}
  /\ db = PopulatedDb
  /\ file \in {MissingFile} \cup
              {[exists |-> TRUE, mtimeMs |-> 1, content |-> c] : c \in SampleFiles}
  /\ limits = Limits(ModesCount, MaxErrors, ModesWaiters, MaxMtimeMs, ModesBusy)
  /\ InitRest

NextModes == PoolNext \/ SelectImmediate \/ SyncNext

\* The pool in each of its two modes.
SpecModes == InitModes /\ [][NextModes]_vars

(* ------------------------------- strings ------------------------------- *)

\* '\n...[truncated]'.length, the marker truncateString appends (line 110).
TruncatedMarkLen == 15

Text(text, len) == [text |-> text, len |-> len, cut |-> 0]

EmptyText == Text("", 0)

\* A short text, written out.
Lit(string) == Text(string, Len(string))

\* a + b on strings that are not truncated.
Concat(a, b) == [text |-> a.text \o b.text, len |-> a.len + b.len, cut |-> 0]
ContinueText == Text("continue", 8)

\* String.prototype.length.
Length(str) == str.len + str.cut

\* String.prototype.trim: of the texts used only "  " and " hi " carry
\* whitespace at their ends; a truncated string ends with ']'.
Trim(str) ==
  IF str.cut = 0 /\ str.text = "  " /\ str.len = 2 THEN EmptyText
  ELSE IF str.cut = 0 /\ str.text = " hi " /\ str.len = 4 THEN Text("hi", 2)
  ELSE str

\* str.toLowerCase() === 'continue'
IsContinue(str) == str.cut = 0 /\ str.len = 8 /\ str.text \in {"continue", "Continue"}

\* A truncation that appends the marker without cutting the string.
truncateStringAppending(value, maxLen) ==
  IF Length(value) <= maxLen THEN value
  ELSE [value EXCEPT !.cut = @ + TruncatedMarkLen]

\* Lines 107-111: truncateString(value, maxLen) of a string value.
truncateString(value, maxLen) ==
  IF Length(value) <= maxLen THEN value
  ELSE IF maxLen <= value.len
  THEN [text |-> value.text, len |-> maxLen, cut |-> TruncatedMarkLen]
  ELSE [text |-> value.text, len |-> value.len,
        cut |-> (maxLen - value.len) + TruncatedMarkLen]

(* ------------------------------ tool names ----------------------------- *)

LowerCase ==
  << "a", "b", "c", "d", "e", "f", "g", "h", "i", "j", "k", "l", "m",
     "n", "o", "p", "q", "r", "s", "t", "u", "v", "w", "x", "y", "z" >>
UpperCase ==
  << "A", "B", "C", "D", "E", "F", "G", "H", "I", "J", "K", "L", "M",
     "N", "O", "P", "Q", "R", "S", "T", "U", "V", "W", "X", "Y", "Z" >>

LowerLetters == {LowerCase[i] : i \in DOMAIN LowerCase}
UpperLetters == {UpperCase[i] : i \in DOMAIN UpperCase}
Digits == {"0", "1", "2", "3", "4", "5", "6", "7", "8", "9"}

\* /[a-zA-Z0-9_]/
IsWordChar(c) == c \in LowerLetters \cup UpperLetters \cup Digits \cup {"_"}

\* String.prototype.toLowerCase, character by character.
LowerChar(c) ==
  IF c \in UpperLetters
  THEN LowerCase[CHOOSE i \in DOMAIN UpperCase : UpperCase[i] = c]
  ELSE c

ToLowerCase(name) == [i \in 1..Len(name) |-> LowerChar(name[i])]

\* raw.replace(/[^a-zA-Z0-9_]/g, '_')
ReplaceNonWord(name) == [i \in 1..Len(name) |-> IF IsWordChar(name[i]) THEN name[i] ELSE "_"]

\* .replace(/_+/g, '_')
RECURSIVE CollapseUnderscores(_)
CollapseUnderscores(name) ==
  IF Len(name) <= 1 THEN name
  ELSE IF name[1] = "_" /\ name[2] = "_" THEN CollapseUnderscores(Tail(name))
  ELSE <<name[1]>> \o CollapseUnderscores(Tail(name))

\* .replace(/^_+|_+$/g, '')
RECURSIVE TrimUnderscores(_)
TrimUnderscores(name) ==
  IF name = <<>> THEN name
  ELSE IF name[1] = "_" THEN TrimUnderscores(Tail(name))
  ELSE IF name[Len(name)] = "_" THEN TrimUnderscores(SubSeq(name, 1, Len(name) - 1))
  ELSE name

ToolWord == <<"t", "o", "o", "l">>

\* Line 50: || 'tool'
orToolWord(name) == IF Len(name) > 0 THEN name ELSE ToolWord

\* Line 51: /^[0-9]/.test(safe) ? `t_${safe}` : safe
prefixDigit(safe) == IF safe[1] \in Digits THEN <<"t", "_">> \o safe ELSE safe

\* Lines 46-52: sanitizeToolName(name).
sanitizeToolName(name) ==
  prefixDigit(orToolWord(TrimUnderscores(CollapseUnderscores(ReplaceNonWord(name)))))

DigitChars == <<"0", "1", "2", "3", "4", "5", "6", "7", "8", "9">>

\* String(i) for a non-negative integer.
RECURSIVE Decimal(_)
Decimal(i) ==
  IF i < 10 THEN <<DigitChars[i + 1]>>
  ELSE Decimal(i \div 10) \o <<DigitChars[(i % 10) + 1]>>

\* Lines 58-60: the first of base, base_2, base_3, ... that is not in use.
RECURSIVE freeCandidate(_, _, _)
freeCandidate(base, i, usedNames) ==
  LET candidate == IF i = 1 THEN base ELSE base \o <<"_">> \o Decimal(i) IN
  IF candidate \in usedNames THEN freeCandidate(base, i + 1, usedNames) ELSE candidate

\* toolNameMap (insertion-ordered pairs) and usedNames, as convertRequest holds them.
NoNames == [map |-> <<>>, used |-> {}]

MapHas(map, originalName) == \E i \in 1..Len(map) : map[i].from = originalName

MapImage(map, originalName) ==
  map[CHOOSE i \in 1..Len(map) : map[i].from = originalName].to

\* Lines 62-64: the candidate is recorded and returned.
rememberName(originalName, candidate, names) ==
  [name |-> candidate,
   names |-> [map |-> Append(names.map, [from |-> originalName, to |-> candidate]),
              used |-> names.used \cup {candidate}]]

\* A naming that records the sanitized name as it is, in use or not.
getOrCreateWithoutSuffix(originalName, names) ==
  rememberName(originalName, sanitizeToolName(originalName), names)

\* Lines 54-65: getOrCreateKiroToolName; the name returned and the names afterwards.
getOrCreateKiroToolName(originalName, names) ==
  IF MapHas(names.map, originalName)
  THEN [name |-> MapImage(names.map, originalName), names |-> names]
  ELSE rememberName(originalName,
                    freeCandidate(sanitizeToolName(originalName), 1, names.used), names)

\* Lines 657-660: isUnsupportedTool(name).
WebSearchNames ==
  { <<"w", "e", "b", "_", "s", "e", "a", "r", "c", "h">>,
    <<"w", "e", "b", "s", "e", "a", "r", "c", "h">> }

isUnsupportedTool(name) == ToLowerCase(name) \in WebSearchNames

(* ------------------------------ JSON values ---------------------------- *)
(* A JSON value is [key, type, str, num, items]: key is the name it is      *)
(* stored under in its object ("" elsewhere), str the value of a string,    *)
(* num the value of a number or 1/0 for true/false, items the elements of   *)
(* an array or the entries of an object, in order.                          *)

JsonValue(type, str, num, items) ==
  [key |-> "", type |-> type, str |-> str, num |-> num, items |-> items]

Undefined == JsonValue("undefined", EmptyText, 0, <<>>)
JsonNull == JsonValue("null", EmptyText, 0, <<>>)
JsonString(str) == JsonValue("string", str, 0, <<>>)
JsonNumber(n) == JsonValue("number", EmptyText, n, <<>>)
JsonBoolean(b) == JsonValue("boolean", EmptyText, IF b THEN 1 ELSE 0, <<>>)
JsonArray(items) == JsonValue("array", EmptyText, 0, items)
JsonObject(entries) == JsonValue("object", EmptyText, 0, entries)

\* out[key] = value
Entry(key, value) == [value EXCEPT !.key = key]

\* String(n) for a non-negative integer, as a text.
RECURSIVE NumberText(_)
NumberText(n) ==
  IF n < 10 THEN Lit(DigitChars[n + 1])
  ELSE Concat(NumberText(n \div 10), Lit(DigitChars[(n % 10) + 1]))

\* '"' + str + '"' for a string without characters to escape.
Quoted(str) == [text |-> "\"" \o str.text \o "\"", len |-> Length(str) + 2, cut |-> 0]

\* texts.join(',')
RECURSIVE JoinComma(_)
JoinComma(texts) ==
  IF Len(texts) = 0 THEN EmptyText
  ELSE IF Len(texts) = 1 THEN texts[1]
  ELSE Concat(Concat(texts[1], Lit(",")), JoinComma(Tail(texts)))

\* JSON.stringify(value) of a value without undefined parts.
RECURSIVE stringify(_)
stringify(value) ==
  CASE value.type = "string" -> Quoted(value.str)
    [] value.type = "number" -> NumberText(value.num)
    [] value.type = "boolean" -> IF value.num = 1 THEN Lit("true") ELSE Lit("false")
    [] value.type = "array" ->
         Concat(Concat(Lit("["),
                       JoinComma([i \in 1..Len(value.items) |-> stringify(value.items[i])])),
                Lit("]"))
    [] value.type = "object" ->
         Concat(Concat(Lit("{"),
                       JoinComma([i \in 1..Len(value.items) |->
                                    Concat(Concat(Quoted(Lit(value.items[i].key)), Lit(":")),
                                           stringify(value.items[i]))])),
                Lit("}"))
    [] OTHER -> Lit("null")

\* Lines 96-105: coerceString(value, '').
coerceString(value) ==
  CASE value.type = "string" -> value.str
    [] value.type \in {"null", "undefined"} -> EmptyText
    [] value.type = "number" -> NumberText(value.num)
    [] value.type = "boolean" -> IF value.num = 1 THEN Lit("true") ELSE Lit("false")
    [] OTHER -> stringify(value)

\* Limits of sanitizeSchemaValue (lines 187, 190, 193, 212, 218).
SchemaDepthLimit == 6
SchemaStringLimit == 1024
SchemaItemLimit == 32
SchemaEntryLimit == 96
SchemaTitleLimit == 512

\* Lines 199-209: skipKeys.
skipKeys ==
  {"$schema", "$id", "$defs", "definitions", "examples", "example", "deprecated",
   "readOnly", "writeOnly"}

\* Lines 217-221: the entry stored for a key whose value was sanitized.
sanitizedEntry(key, sanitized) ==
  IF key \in {"description", "title"}
  THEN Entry(key, JsonString(truncateString(coerceString(sanitized), SchemaTitleLimit)))
  ELSE Entry(key, sanitized)

\* array.slice(0, n)
FirstOf(seq, n) == SubSeq(seq, 1, IF Len(seq) < n THEN Len(seq) ELSE n)

\* Lines 186-224: sanitizeSchemaValue(value, depth).
RECURSIVE sanitizeSchemaValue(_, _)
sanitizeSchemaValue(value, depth) ==
  IF depth > SchemaDepthLimit THEN Undefined
  ELSE IF value.type \in {"null", "undefined"} THEN Undefined
  ELSE IF value.type \in {"number", "boolean"} THEN value
  ELSE IF value.type = "string"
  THEN [value EXCEPT !.str = truncateString(@, SchemaStringLimit)]
  ELSE IF value.type = "array"
  THEN LET first == FirstOf(value.items, SchemaItemLimit)
           mapped == [i \in 1..Len(first) |-> sanitizeSchemaValue(first[i], depth + 1)]
       IN [value EXCEPT !.items = SelectSeq(mapped, LAMBDA v : v.type # "undefined")]
  ELSE LET entries == FirstOf(value.items, SchemaEntryLimit)
           mapped == [i \in 1..Len(entries) |->
                        IF entries[i].key \in skipKeys THEN Undefined
                        ELSE LET sanitized == sanitizeSchemaValue(entries[i], depth + 1) IN
                             IF sanitized.type = "undefined" THEN Undefined
                             ELSE sanitizedEntry(entries[i].key, sanitized)]
       IN [value EXCEPT !.items = SelectSeq(mapped, LAMBDA v : v.type # "undefined")]

(* ---------------------------- upstream bodies -------------------------- *)
(* A JSON body is a record; an optional array is [has, items] and an        *)
(* optional context object is [present, tools, toolResults].  The keys of   *)
(* conversationState are listed, in the order they were added, in keys; the *)
(* value of a key that the object does not have is "" for a string, <<>>    *)
(* for the history and the empty message for currentMessage.                *)

Absent == [has |-> FALSE, items |-> <<>>]

Items(items) == [has |-> TRUE, items |-> items]

NoCtx == [present |-> FALSE, tools |-> Absent, toolResults |-> Absent]

\* Object.keys(ctx).length === 0
CtxEmpty(ctx) == ~ctx.tools.has /\ ~ctx.toolResults.has

\* Lines 365, 228-233: { type: 'object', properties: {} }
EmptySchema ==
  JsonObject(<< Entry("type", JsonString(Lit("object"))), Entry("properties", JsonObject(<<>>)) >>)

ToolSpecification(name, description, inputSchema) ==
  [name |-> name, description |-> description, inputSchema |-> inputSchema]

UserEntry(content, modelId, ctx) ==
  [kind |-> "userInputMessage", content |-> content, modelId |-> modelId,
   origin |-> "AI_EDITOR", ctx |-> ctx, toolUses |-> Absent]

AssistantEntry(content, toolUses) ==
  [kind |-> "assistantResponseMessage", content |-> content, modelId |-> "",
   origin |-> "", ctx |-> NoCtx, toolUses |-> toolUses]

\* Lines 309-322 and 626-639: the keys of the conversationState object
\* literal, in the order they are written (the order JSON.stringify emits).
StateLiteralKeys ==
  << "agentContinuationId", "agentTaskType", "chatTriggerType", "currentMessage",
     "conversationId", "history" >>

\* key in state
HasKey(keys, key) == \E i \in 1..Len(keys) : keys[i] = key

\* An assignment that removes the key and adds it again, as the last key.
assignKeyMovingLast(keys, key) == Append(SelectSeq(keys, LAMBDA k : k # key), key)

\* Lines 379, 390: state[key] = value; a key the object has keeps its place
\* and a new key becomes the last.
assignKey(keys, key) ==
  IF \E i \in 1..Len(keys) : keys[i] = key THEN keys ELSE Append(keys, key)

\* array.slice(0, n)
Take(seq, n) == SubSeq(seq, 1, IF Len(seq) < n THEN Len(seq) ELSE n)

\* array.slice(-n)
TakeLast(seq, n) == SubSeq(seq, IF Len(seq) > n THEN Len(seq) - n + 1 ELSE 1, Len(seq))

\* Truncation limits and retained windows of the fallback modes.
HistoryContentLimit == 10000
SingleTurnContentLimit == 12000
CurrentContentLimit == 20000
MinimalContentLimit == 10000
CompactToolLimit == 24
CompactDescriptionLimit == 256
TrimHistoryWindow == 24
MinimalHistoryWindow == 8

HistoryStrippingModes == {"no-tools", "trim-history", "minimal-history", "single-turn"}

\* Lines 253-267 and 350-374: the deletions both retry sanitizers apply to a context.
stripCtx(ctx, mode, toolModes) ==
  IF ~ctx.present THEN ctx
  ELSE LET results == IF mode # "compact-tools" THEN Absent ELSE ctx.toolResults
           tools == IF mode \in toolModes THEN Absent ELSE ctx.tools
           kept == [present |-> TRUE, tools |-> tools, toolResults |-> results]
       IN IF CtxEmpty(kept) THEN NoCtx ELSE kept

\* Lines 248-281: sanitizeHistoryEntryForRetry(entry, mode).
sanitizeHistoryEntryForRetry(entry, mode) ==
  IF entry.kind = "userInputMessage"
  THEN [entry EXCEPT !.content = truncateString(entry.content, HistoryContentLimit),
                     !.ctx = stripCtx(entry.ctx, mode, HistoryStrippingModes)]
  ELSE [entry EXCEPT !.content = truncateString(entry.content, HistoryContentLimit),
                     !.toolUses = IF mode \in {"trim-history", "minimal-history", "single-turn"}
                                  THEN Absent ELSE entry.toolUses]

\* The largest member of a non-empty set of numbers.
Max(S) == CHOOSE n \in S : \A m \in S : m <= n

\* Lines 283-293: extractLatestUserContentFromHistory(history): the text of the
\* last entry that has one.
extractLatestUserContentFromHistory(history) ==
  LET text(i) == IF history[i].kind = "userInputMessage"
                 THEN Trim(history[i].content) ELSE EmptyText
      found == {i \in 1..Len(history) : Length(text(i)) > 0 /\ ~IsContinue(text(i))}
  IN IF found = {} THEN EmptyText ELSE text(Max(found))

\* a || b on strings
OrElse(a, b) == IF a # "" THEN a ELSE b

\* Lines 295-330: buildSingleTurnRequest(baseRequest); uuids are the values
\* uuidv4() returns if it is called.
buildSingleTurnRequest(baseRequest, uuids) ==
  LET current == baseRequest.current
      trimmed == Trim(current.content)
      latest == IF HasKey(baseRequest.keys, "history")
                THEN extractLatestUserContentFromHistory(baseRequest.history)
                ELSE EmptyText
      found == IF (Length(trimmed) = 0 \/ IsContinue(trimmed)) /\ Length(latest) > 0
               THEN latest ELSE trimmed
      content == IF Length(found) = 0 THEN ContinueText ELSE found
  IN [state |-> TRUE,
      keys |-> StateLiteralKeys,
      agentContinuationId |-> OrElse(baseRequest.agentContinuationId, uuids.agentContinuationId),
      agentTaskType |-> OrElse(baseRequest.agentTaskType, "vibe"),
      chatTriggerType |-> "MANUAL",
      current |-> [content |-> truncateString(content, SingleTurnContentLimit),
                   modelId |-> current.modelId,
                   origin |-> OrElse(current.origin, "AI_EDITOR"),
                   ctx |-> NoCtx],
      conversationId |-> OrElse(baseRequest.conversationId, uuids.conversationId),
      history |-> <<>>,
      profileArn |-> baseRequest.profileArn]

\* Lines 357-369: the tools of a compact-tools body.
compactTools(tools) ==
  IF ~tools.has THEN tools
  ELSE LET kept == Take(tools.items, CompactToolLimit) IN
       Items([i \in 1..Len(kept) |->
                ToolSpecification(kept[i].name,
                                  truncateString(kept[i].description, CompactDescriptionLimit),
                                  EmptySchema)])

\* Lines 376-377: hasTools.
hasTools(ctx) == ctx.present /\ ctx.tools.has /\ Len(ctx.tools.items) > 0

\* Lines 382-390: the history of a fallback body.
fallbackHistory(history, mode) ==
  LET sanitized == [i \in 1..Len(history) |-> sanitizeHistoryEntryForRetry(history[i], mode)] IN
  IF mode = "trim-history" THEN TakeLast(sanitized, TrimHistoryWindow)
  ELSE IF mode = "minimal-history" THEN TakeLast(sanitized, MinimalHistoryWindow)
  ELSE sanitized

\* Lines 348-374: the current message of req is cut and its context stripped.
cutCurrent(req, mode) ==
  LET stripped == stripCtx(req.current.ctx, mode, {"no-tools", "trim-history", "minimal-history"})
  IN [req EXCEPT !.current.content =
                   truncateString(@, IF mode = "minimal-history" THEN MinimalContentLimit
                                     ELSE CurrentContentLimit),
                 !.current.ctx = IF mode = "compact-tools" /\ stripped.present
                                 THEN [stripped EXCEPT !.tools = compactTools(stripped.tools)]
                                 ELSE stripped]

\* Lines 376-380: state.chatTriggerType = 'MANUAL' when no tools are left.
resetTrigger(req) ==
  IF ~hasTools(req.current.ctx) /\ req.chatTriggerType = "AUTO"
  THEN [req EXCEPT !.keys = assignKey(@, "chatTriggerType"), !.chatTriggerType = "MANUAL"]
  ELSE req

\* Lines 382-390: state.history = history, for a state that has a history.
cutHistory(req, mode) ==
  IF HasKey(req.keys, "history")
  THEN [req EXCEPT !.keys = assignKey(@, "history"),
                   !.history = fallbackHistory(req.history, mode)]
  ELSE req

\* req = baseRequest: req is the object baseRequest itself.
aliasRequest(baseRequest) == [req |-> baseRequest, shared |-> TRUE]

\* Line 335: req = JSON.parse(JSON.stringify(baseRequest)): req is a new
\* object whose value is that of baseRequest, a JSON value; what is done to
\* req later is not done to baseRequest.
cloneRequest(baseRequest) == [req |-> baseRequest, shared |-> FALSE]

\* Lines 332-393: buildFallbackRequest(baseRequest, mode): the body returned
\* and the object baseRequest as the call leaves it.
buildFallbackRequest(baseRequest, mode, uuids) ==
  LET cloned == cloneRequest(baseRequest) IN
  IF ~cloned.req.state \/ ~HasKey(cloned.req.keys, "currentMessage")
  THEN [req |-> cloned.req, baseRequest |-> baseRequest]
  ELSE IF mode = "single-turn"
  THEN [req |-> buildSingleTurnRequest(cloned.req, uuids), baseRequest |-> baseRequest]
  ELSE LET req == cutHistory(resetTrigger(cutCurrent(cloned.req, mode)), mode) IN
       [req |-> req, baseRequest |-> IF cloned.shared THEN req ELSE baseRequest]

(* ------------------------------ debug summary -------------------------- *)

\* Line 406: at most three elements of an array are summarised.
DebugSampleSize == 3

\* Lines 395-415 applied to a context object, which sits at depth 4 in the
\* current message and at depth 5 in a history entry; its arrays' elements
\* are objects whose fields lie deeper than depth 6 ('[MaxDepth]').
summarizeCtx(ctx) ==
  [present |-> ctx.present,
   tools |-> IF ctx.tools.has THEN Len(ctx.tools.items) ELSE -1,
   toolResults |-> IF ctx.toolResults.has THEN Len(ctx.toolResults.items) ELSE -1]

summarizeEntry(entry) ==
  [kind |-> entry.kind,
   content |-> Length(entry.content),
   modelId |-> Len(entry.modelId),
   origin |-> Len(entry.origin),
   ctx |-> summarizeCtx(entry.ctx),
   toolUses |-> IF entry.toolUses.has THEN Len(entry.toolUses.items) ELSE -1]

\* Lines 395-415: summarizeForDebug(body): strings are replaced by their
\* lengths, arrays by their length and a sample, -1 stands for a missing key.
summarizeForDebug(body) ==
  [state |-> body.state,
   agentContinuationId |-> Len(body.agentContinuationId),
   agentTaskType |-> Len(body.agentTaskType),
   chatTriggerType |-> Len(body.chatTriggerType),
   content |-> Length(body.current.content),
   modelId |-> Len(body.current.modelId),
   origin |-> Len(body.current.origin),
   ctx |-> summarizeCtx(body.current.ctx),
   conversationId |-> Len(body.conversationId),
   history |-> [length |-> Len(body.history),
                sample |-> LET first == Take(body.history, DebugSampleSize) IN
                           [i \in 1..Len(first) |-> summarizeEntry(first[i])]],
   profileArn |-> Len(body.profileArn)]

(* ---------------------------- foreign requests ------------------------- *)
(* A foreign message is [role, content]; content is null, a string or a     *)
(* list of blocks [type, text, name, id, isError].                          *)

\* for (const item of items) acc = Step(item, acc): the value of acc after the
\* loop.  The items are visited in order; the loop is evaluated by halves, the
\* left half first and the right half from its result.
RECURSIVE Loop(_, _, _)
Loop(Step(_, _), items, acc) ==
  IF Len(items) = 0 THEN acc
  ELSE IF Len(items) = 1 THEN Step(items[1], acc)
  ELSE LET half == Len(items) \div 2 IN
       CHOOSE result \in
         { Loop(Step, right, done) :
             right \in {SubSeq(items, half + 1, Len(items))},
             done \in { Loop(Step, left, acc) : left \in {SubSeq(items, 1, half)} } } : TRUE

\* parts.join('\n')
JoinLines(parts) ==
  IF parts = <<>> THEN EmptyText
  ELSE Loop(LAMBDA part, joined : Concat(Concat(joined, Lit("\n")), part),
            Tail(parts), parts[1])

\* Line 119: String(raw.role || '').trim().toLowerCase() of the roles used.
normalizeRole(role) ==
  IF role \in {"user", "User", " user "} THEN "user"
  ELSE IF role \in {"assistant", "Assistant"} THEN "assistant"
  ELSE role

\* Line 125: the number of messages normalizeMessageList keeps.
MessageLimit == 200

IsTurn(message) == message.role \in {"user", "assistant"}

\* Lines 113-128: normalizeMessageList(rawMessages): the loop pushes the
\* messages of the two roles and stops when it has pushed MessageLimit of them.
normalizeMessageList(rawMessages) ==
  Take(SelectSeq([i \in 1..Len(rawMessages) |->
                    [role |-> normalizeRole(rawMessages[i].role),
                     content |-> rawMessages[i].content]],
                 IsTurn),
       MessageLimit)

\* Line 171: the characters normalizeToolUseId keeps, and its length limit.
IsIdChar(c) == IsWordChar(c) \/ c \in {"-", ":", "."}

ToolUseIdLimit == 128

\* Line 169: the white space and line terminators String.prototype.trim
\* strips, among the characters the sample ids are made of.
WhiteSpace == {" ", "\t", "\n", "\r", "\f"}

\* Line 169: .trim()
RECURSIVE TrimSpaces(_)
TrimSpaces(chars) ==
  IF chars = <<>> THEN chars
  ELSE IF chars[1] \in WhiteSpace THEN TrimSpaces(Tail(chars))
  ELSE IF chars[Len(chars)] \in WhiteSpace
  THEN TrimSpaces(SubSeq(chars, 1, Len(chars) - 1))
  ELSE chars

ToolUseWord == <<"t", "o", "o", "l", "_", "u", "s", "e">>

\* Line 171: raw.replace(/[^\w\-:.]/g, '_')
ReplaceNonId(raw) == [i \in 1..Len(raw) |-> IF IsIdChar(raw[i]) THEN raw[i] ELSE "_"]

\* Lines 170-171: || fallback
orToolUseWord(id) == IF id = <<>> THEN ToolUseWord ELSE id

\* Lines 168-172: normalizeToolUseId(value, 'tool_use').
normalizeToolUseId(value) ==
  orToolUseWord(Take(ReplaceNonId(TrimSpaces(value)), ToolUseIdLimit))

\* Lines 733, 227, 600: value || {}: the values that are falsy in JavaScript
\* give way to the empty object.
orEmptyObject(value) ==
  IF \/ value.type \in {"undefined", "null"}
     \/ (value.type = "string" /\ Length(value.str) = 0)
     \/ (value.type \in {"number", "boolean"} /\ value.num = 0)
  THEN JsonObject(<<>>) ELSE value

\* { q: 'kiro' }
QueryInput == JsonObject(<< Entry("q", JsonString(Lit("kiro"))) >>)

\* The JSON values that the inputs used give as JSON texts.
WrittenValues ==
  { QueryInput, JsonObject(<<>>), JsonArray(<< JsonNumber(1) >>), JsonNumber(5), JsonNull }

\* Lines 82-86: JSON.parse(text): the value that the text is the JSON text
\* of; undefined stands for the SyntaxError thrown for a text that is not
\* the JSON text of a value.
JsonParse(str) ==
  IF \E v \in WrittenValues : stringify(v) = str
  THEN CHOOSE v \in WrittenValues : stringify(v) = str
  ELSE Undefined

\* Lines 77-94: normalizeJsonObject(value).
normalizeJsonObject(value) ==
  IF value.type \in {"undefined", "null"} THEN JsonObject(<<>>)
  ELSE LET normalized == IF value.type = "string" THEN JsonParse(value.str) ELSE value IN
       IF normalized.type # "object" THEN JsonObject(<<>>) ELSE normalized

\* Lines 680-702: one block of a user message added to the parts collected.
userBlock(block, acc) ==
  IF block.type = "tool_result"
  THEN [acc EXCEPT !.toolResults =
          Append(@, [toolUseId |-> normalizeToolUseId(block.id),
                     status |-> IF block.isError THEN "error" ELSE "success",
                     content |-> IF Length(block.text) > 0 THEN block.text ELSE Lit("OK")])]
  ELSE IF Length(block.text) > 0
  THEN [acc EXCEPT !.textParts = Append(@, block.text)]
  ELSE acc

userBlocks(blocks, acc) == Loop(userBlock, blocks, acc)

\* Line 705: the parts collected from the blocks, as extractUserContent returns them.
userExtract(acc) == [text |-> JoinLines(acc.textParts), toolResults |-> acc.toolResults]

\* Lines 672-706: extractUserContent(content).
extractUserContent(content) ==
  IF content.kind = "null" THEN [text |-> EmptyText, toolResults |-> <<>>]
  ELSE IF content.kind = "string" THEN [text |-> content.text, toolResults |-> <<>>]
  ELSE userExtract(userBlocks(content.blocks, [textParts |-> <<>>, toolResults |-> <<>>]))

\* Lines 728-734: the tool use pushed for a block, under the name it was given.
pushToolUse(block, named, acc) ==
  [acc EXCEPT !.names = named.names,
              !.toolUses = Append(@, [toolUseId |-> normalizeToolUseId(block.id),
                                      name |-> named.name,
                                      input |-> normalizeJsonObject(orEmptyObject(block.input))])]

\* Lines 719-741: one block of an assistant message.
assistantBlock(block, acc) ==
  IF block.type = "thinking"
  THEN [acc EXCEPT !.thinking = Concat(@, block.text)]
  ELSE IF block.type = "tool_use"
  THEN IF isUnsupportedTool(block.name) THEN acc
       ELSE pushToolUse(block, getOrCreateKiroToolName(orToolWord(block.name), acc.names), acc)
  ELSE IF block.type = "redacted_thinking" THEN acc
  ELSE IF Length(block.text) > 0
  THEN [acc EXCEPT !.textParts = Append(@, block.text)]
  ELSE acc

assistantBlocks(blocks, acc) == Loop(assistantBlock, blocks, acc)

\* Lines 743-752: finalText, from the thinking text and the text parts.
assistantText(thinking, textParts) ==
  IF Length(thinking) > 0
  THEN IF Len(textParts) > 0
       THEN Concat(Concat(Concat(Concat(Lit("<thinking>"), thinking), Lit("</thinking>")),
                          Lit("\n\n")),
                   JoinLines(textParts))
       ELSE Concat(Concat(Lit("<thinking>"), thinking), Lit("</thinking>"))
  ELSE JoinLines(textParts)

\* Lines 754-758: 'OK' stands in for an empty text next to tool uses.
assistantExtract(finalText, acc) ==
  [text |-> IF Length(finalText) = 0 /\ Len(acc.toolUses) > 0 THEN Lit("OK") ELSE finalText,
   toolUses |-> acc.toolUses,
   names |-> acc.names]

\* Lines 743-758: what extractAssistantContent returns for the parts collected.
assistantResult(acc) == assistantExtract(assistantText(acc.thinking, acc.textParts), acc)

\* Lines 711-759: extractAssistantContent(content, toolNameMap, usedToolNames).
extractAssistantContent(content, names) ==
  IF content.kind = "string"
  THEN [text |-> content.text, toolUses |-> <<>>, names |-> names]
  ELSE assistantResult(assistantBlocks(IF content.kind = "null" THEN <<>> ELSE content.blocks,
                                       [thinking |-> EmptyText, textParts |-> <<>>,
                                        toolUses |-> <<>>, names |-> names]))

\* Lines 768-774 and 582-588: the texts and tool results of a run of user messages.
addExtracted(extracted, acc) ==
  [textParts |-> IF Length(extracted.text) > 0
                 THEN Append(acc.textParts, extracted.text)
                 ELSE acc.textParts,
   toolResults |-> acc.toolResults \o extracted.toolResults]

collectOne(msg, acc) == addExtracted(extractUserContent(msg.content), acc)

collectUser(messages, acc) == Loop(collectOne, messages, acc)

\* Lines 776-789: the merged message, from the joined text and the tool results.
mergedUser(joined, allToolResults, modelId) ==
  UserEntry(IF Length(joined) > 0 THEN joined
            ELSE IF Len(allToolResults) > 0 THEN ContinueText ELSE EmptyText,
            modelId,
            IF Len(allToolResults) > 0
            THEN [present |-> TRUE, tools |-> Absent, toolResults |-> Items(allToolResults)]
            ELSE NoCtx)

mergeCollected(acc, modelId) == mergedUser(JoinLines(acc.textParts), acc.toolResults, modelId)

\* Lines 764-790: mergeUserMessages(messages, modelId).
mergeUserMessages(messages, modelId) ==
  mergeCollected(collectUser(messages, [textParts |-> <<>>, toolResults |-> <<>>]), modelId)

\* Lines 421-429: mapModel(model) without a database manager, for the models used.
mapModel(model) ==
  IF model \in {"claude-sonnet-4", "Claude-Sonnet"} THEN "claude-sonnet-4-6-20260217-thinking"
  ELSE IF model \in {"claude-opus-4"} THEN "claude-opus-4.6"
  ELSE IF model \in {"claude-haiku-4"} THEN "claude-haiku-4-5-20251001"
  ELSE ""

\* Line 498: anthropicReq.thinking.budget_tokens || 10000
DefaultBudgetTokens == 10000

\* Lines 496-500: thinkingPrefix, "" when thinking is not enabled.
thinkingPrefix(thinking) ==
  IF ~thinking.enabled THEN EmptyText
  ELSE Lit("<thinking_mode>enabled</thinking_mode><max_thinking_length>"
           \o ToString(IF thinking.budget_tokens = 0 THEN DefaultBudgetTokens
                       ELSE thinking.budget_tokens)
           \o "</max_thinking_length>")

\* The system texts used that contain '<thinking_mode>' or '<max_thinking_length>'.
ThinkingTagged == {"<thinking_mode>disabled</thinking_mode>"}

FollowText == Lit("I will follow these instructions.")

\* anthropicReq.system: missing, a string, or a list of blocks given by their texts.
NoSystem == [kind |-> "absent", text |-> EmptyText, blocks |-> <<>>]
StringSystem(text) == [kind |-> "string", text |-> text, blocks |-> <<>>]
BlockSystem(blocks) == [kind |-> "blocks", text |-> EmptyText, blocks |-> blocks]

\* Line 506: if (anthropicReq.system): a list is truthy, the empty string is not.
systemGiven(system) ==
  system.kind = "blocks" \/ (system.kind = "string" /\ Length(system.text) > 0)

\* Lines 174-184: extractSystemContent(system).
extractSystemContent(system) ==
  IF system.kind = "string" THEN system.text
  ELSE IF system.kind = "blocks"
  THEN JoinLines(SelectSeq(system.blocks, LAMBDA text : Length(text) > 0))
  ELSE EmptyText

\* Lines 505-541: the history entries made from the system prompt and the thinking prefix.
systemEntries(given, systemContent, prefix, modelId) ==
  IF given
  THEN IF Length(systemContent) > 0
       THEN << UserEntry(IF Length(prefix) > 0 /\ systemContent.text \notin ThinkingTagged
                         THEN Concat(Concat(prefix, Lit("\n")), systemContent)
                         ELSE systemContent,
                         modelId, NoCtx),
               AssistantEntry(FollowText, Absent) >>
       ELSE <<>>
  ELSE IF Length(prefix) > 0
  THEN << UserEntry(prefix, modelId, NoCtx), AssistantEntry(FollowText, Absent) >>
  ELSE <<>>

systemHistory(system, thinking, modelId) ==
  systemEntries(systemGiven(system), extractSystemContent(system),
                thinkingPrefix(thinking), modelId)

\* A split that takes the last message alone as the current turn.
currentStartAtLast(messages) == Len(messages) - 1

\* Lines 484-487: the index (from 0) where the trailing run of user messages
\* starts: the loop stops below the last message that is not the user's.
currentStartOf(messages) ==
  Max({0} \cup {i \in 1..Len(messages) : messages[i].role # "user"})

\* Lines 547-565: the loop over the messages before historyEnd.
\* Lines 552-556: the buffered user messages are merged into one history entry.
flushUsers(acc, modelId) ==
  IF Len(acc.userBuffer) > 0
  THEN Append(acc.history, mergeUserMessages(acc.userBuffer, modelId))
  ELSE acc.history

\* Lines 558-563: the assistant's entry is pushed.
pushAssistant(flushed, extracted) ==
  [history |-> Append(flushed,
                      AssistantEntry(extracted.text,
                                     IF Len(extracted.toolUses) > 0
                                     THEN Items(extracted.toolUses) ELSE Absent)),
   userBuffer |-> <<>>,
   names |-> extracted.names]

\* Lines 548-564: one pass of the loop over the messages before historyEnd.
historyStep(msg, modelId, acc) ==
  IF msg.role = "user"
  THEN [acc EXCEPT !.userBuffer = Append(@, msg)]
  ELSE pushAssistant(flushUsers(acc, modelId), extractAssistantContent(msg.content, acc.names))

historyLoop(messages, modelId, acc) ==
  Loop(LAMBDA msg, looped : historyStep(msg, modelId, looped), messages, acc)

\* Lines 226-236: buildToolSchema(inputSchema).
buildToolSchema(inputSchema) ==
  LET sanitized == sanitizeSchemaValue(normalizeJsonObject(orEmptyObject(inputSchema)), 0) IN
  IF sanitized.type # "object" \/ Len(sanitized.items) = 0 THEN EmptySchema ELSE sanitized

\* Line 599: the length kept of a tool description.
DescriptionLimit == 2000

\* Lines 593-602: the tool definitions, with the names in use afterwards.
\* Lines 596-602: the definition made of a tool, under the name it was given.
pushTool(t, named, acc) ==
  [tools |-> Append(acc.tools,
                    ToolSpecification(named.name,
                                      truncateString(t.description, DescriptionLimit),
                                      buildToolSchema(orEmptyObject(t.input_schema)))),
   names |-> named.names]

\* Lines 594-602: one tool of the foreign list.
buildTool(t, acc) ==
  IF isUnsupportedTool(t.name) THEN acc
  ELSE pushTool(t, getOrCreateKiroToolName(orToolWord(t.name), acc.names), acc)

buildTools(tools, acc) == Loop(buildTool, tools, acc)

\* Lines 614-622: chatTriggerType.
chatTriggerTypeOf(anthropicReq) ==
  IF anthropicReq.tools.has /\ Len(anthropicReq.tools.items) > 0
     /\ anthropicReq.tool_choice \in {"any", "tool"}
  THEN "AUTO" ELSE "MANUAL"

NoBody ==
  [state |-> FALSE, keys |-> <<>>,
   agentContinuationId |-> "", agentTaskType |-> "", chatTriggerType |-> "",
   current |-> [content |-> EmptyText, modelId |-> "", origin |-> "", ctx |-> NoCtx],
   conversationId |-> "", history |-> <<>>, profileArn |-> ""]

Thrown(error) == [ok |-> FALSE, error |-> error, kiroRequest |-> NoBody, toolNameMap |-> <<>>]

\* Lines 567-572: a user run left in the buffer is closed with an 'OK' reply.
closeHistory(looped, modelId) ==
  IF Len(looped.userBuffer) > 0
  THEN looped.history \o << mergeUserMessages(looped.userBuffer, modelId),
                            AssistantEntry(Lit("OK"), Absent) >>
  ELSE looped.history

\* Lines 578-590: currentText.
currentTextOf(endsWithAssistant, joined) ==
  IF endsWithAssistant \/ Length(joined) = 0 THEN ContinueText ELSE joined

\* Lines 605-611, 642-644: userInputMessageContext.
contextOf(tools, allToolResults) ==
  [present |-> Len(tools) > 0 \/ Len(allToolResults) > 0,
   tools |-> IF Len(tools) > 0 THEN Items(tools) ELSE Absent,
   toolResults |-> IF Len(allToolResults) > 0 THEN Items(allToolResults) ELSE Absent]

\* Lines 625-651: the request and the name map convertRequest returns.
converted(anthropicReq, uuids, profileArn, modelId, history, currentText, allToolResults, built) ==
  [ok |-> TRUE,
   error |-> "",
   kiroRequest |->
     [state |-> TRUE,
      keys |-> StateLiteralKeys,
      agentContinuationId |-> uuids.agentContinuationId,
      agentTaskType |-> "vibe",
      chatTriggerType |-> chatTriggerTypeOf(anthropicReq),
      current |-> [content |-> currentText, modelId |-> modelId,
                   origin |-> "AI_EDITOR", ctx |-> contextOf(built.tools, allToolResults)],
      conversationId |-> uuids.conversationId,
      history |-> history,
      profileArn |-> profileArn],
   toolNameMap |-> built.names.map]

\* Lines 567-651: what follows the loop over the history messages.
afterHistory(anthropicReq, uuids, profileArn, modelId, endsWithAssistant, looped, collected) ==
  converted(anthropicReq, uuids, profileArn, modelId,
            closeHistory(looped, modelId),
            currentTextOf(endsWithAssistant, JoinLines(collected.textParts)),
            collected.toolResults,
            buildTools(IF anthropicReq.tools.has THEN anthropicReq.tools.items ELSE <<>>,
                       [tools |-> <<>>, names |-> looped.names]))

\* Lines 484-590: the messages are split at currentStart into history and current message.
splitMessages(anthropicReq, uuids, profileArn, modelId, messages, currentStart) ==
  afterHistory(anthropicReq, uuids, profileArn, modelId,
               currentStart = Len(messages),
               historyLoop(SubSeq(messages, 1,
                                  IF currentStart = Len(messages) THEN Len(messages)
                                  ELSE currentStart),
                           modelId,
                           [history |-> systemHistory(anthropicReq.system,
                                                      anthropicReq.thinking, modelId),
                            userBuffer |-> <<>>,
                            names |-> NoNames]),
               collectUser(SubSeq(messages, currentStart + 1, Len(messages)),
                           [textParts |-> <<>>, toolResults |-> <<>>]))

\* Lines 475-652: convertRequest once the model is mapped.
convertMessages(anthropicReq, uuids, profileArn, modelId, messages) ==
  IF messages = <<>> THEN Thrown("empty-messages")
  ELSE splitMessages(anthropicReq, uuids, profileArn, modelId, messages,
                     currentStartOf(messages))

\* Lines 466-652: convertRequest(anthropicReq); uuids are the values of the two
\* uuidv4() calls and profileArn is this.tokenManager.credentials.profileArn.
convertRequest(anthropicReq, uuids, profileArn) ==
  IF mapModel(anthropicReq.model) = "" THEN Thrown("unsupported-model")
  ELSE convertMessages(anthropicReq, uuids, profileArn, mapModel(anthropicReq.model),
                       normalizeMessageList(anthropicReq.messages))

(* ------------------------------ retry policy --------------------------- *)
(* A configured value is a word, possibly written with capitals and with    *)
(* blanks around it; the missing value is the empty word.                   *)

CompatValue(word, caps, padded) == [word |-> word, caps |-> caps, padded |-> padded]

\* Lines 26-32: getCompatMode(): coerceString(...).trim().toLowerCase().
getCompatMode(config) ==
  LET trimmed == [config.anthropicCompatMode EXCEPT !.padded = FALSE]
      mode == [trimmed EXCEPT !.caps = FALSE]
  IN IF mode.word \in {"strict", "balanced", "relaxed"} THEN mode.word ELSE "strict"

\* Lines 34-44: getFallbackModes().
getFallbackModes(config) ==
  LET mode == getCompatMode(config) IN
  IF mode = "strict" THEN <<"primary", "compact-tools">>
  ELSE IF mode = "balanced" THEN <<"primary", "compact-tools", "no-tools", "trim-history">>
  ELSE <<"primary", "compact-tools", "no-tools", "trim-history", "minimal-history",
         "single-turn">>

\* The phrases of lines 242-244 that a response text contains once lower-cased,
\* for the response texts used.
PhrasesIn(text) ==
  IF text = "Improperly formed request." THEN {"improperly formed request"}
  ELSE IF text = "Malformed input" THEN {"malformed"}
  ELSE IF text = "type: invalid_request_error" THEN {"invalid_request_error"}
  ELSE {}

BadRequest == 400

\* A retry test that looks at the text only.
shouldRetryAnyStatus(status, responseText) == PhrasesIn(responseText) # {}

\* Lines 238-246: shouldRetryImproperlyFormed(status, responseText).
shouldRetryImproperlyFormed(status, responseText) ==
  IF status # BadRequest THEN FALSE
  ELSE PhrasesIn(responseText) # {}

\* Lines 803-809: the item made for one mode; the item of mode primary
\* holds the object kiroReq itself, the others the body made for them.
requestItem(mode, uuids, acc) ==
  IF mode = "primary"
  THEN [acc EXCEPT !.requests = Append(@, [mode |-> mode, own |-> FALSE, body |-> acc.kiroReq])]
  ELSE LET built == buildFallbackRequest(acc.kiroReq, mode, uuids) IN
       [kiroReq |-> built.baseRequest,
        requests |-> Append(acc.requests, [mode |-> mode, own |-> TRUE, body |-> built.req])]

\* The items with their bodies as they are when the list is complete: the
\* body of the primary item is the object kiroReq as the calls have left it.
requestsOf(built) ==
  [k \in 1..Len(built.requests) |->
     [mode |-> built.requests[k].mode,
      body |-> IF built.requests[k].own THEN built.requests[k].body ELSE built.kiroReq]]

\* Lines 802-809: the bodies callApiStream prepares, one per mode, in order.
buildRequests(kiroReq, fallbackModes, uuids) ==
  requestsOf(Loop(LAMBDA mode, acc : requestItem(mode, uuids, acc), fallbackModes,
                  [kiroReq |-> kiroReq, requests |-> <<>>]))

\* A debug record that summarises the primary body whatever the attempt.
requestDebugOfPrimary(requests, i) ==
  [mode |-> requests[i].mode, body |-> summarizeForDebug(requests[1].body)]

\* Lines 836-839: requestDebug of attempt i.
requestDebug(requests, i) ==
  [mode |-> requests[i].mode, body |-> summarizeForDebug(requests[i].body)]

\* Line 832: response.ok
Ok(status) == status >= 200 /\ status <= 299

(* ------------------------------ sample inputs -------------------------- *)

Chars(n) == <<"t">> \o Decimal(n)

StringContent(text) == [kind |-> "string", text |-> text, blocks |-> <<>>]
BlockContent(blocks) == [kind |-> "blocks", text |-> EmptyText, blocks |-> blocks]
NullContent == [kind |-> "null", text |-> EmptyText, blocks |-> <<>>]

\* A block with its type, text, name, id and input; input is the first of
\* block.input, block.arguments and block.params that is truthy.
BlockWith(type, text, name, id, input) ==
  [type |-> type, text |-> text, name |-> name, id |-> id, isError |-> FALSE, input |-> input]

Block(type, text, name, id) == BlockWith(type, text, name, id, QueryInput)

Message(role, content) == [role |-> role, content |-> content]

\* { type: 'object' }
ObjectSchema == JsonObject(<< Entry("type", JsonString(Lit("object"))) >>)

ForeignToolWith(name, description, input_schema) ==
  [name |-> name, description |-> description, input_schema |-> input_schema]

ForeignTool(name, description) == ForeignToolWith(name, description, ObjectSchema)

NoThinking == [enabled |-> FALSE, budget_tokens |-> 0]

Request(model, system, thinking, messages, tools, tool_choice) ==
  [model |-> model, system |-> system, thinking |-> thinking, messages |-> messages,
   tools |-> tools, tool_choice |-> tool_choice]

WebSearch == <<"w", "e", "b", "_", "s", "e", "a", "r", "c", "h">>
WebSearchCaps == <<"W", "e", "b", "S", "e", "a", "r", "c", "h">>

\* Sizes of the long sample inputs: past every truncation limit and window.
LongTextLen == 30000
LongDescriptionLen == 3000
ManyTools == 25
ManyTurns == 13
ManyMessages == 201

LongText == Text("long-text", LongTextLen)

\* A conversation of ManyTurns exchanges, with a tool use and its result in each.
Turn(k) ==
  << Message("user",
             BlockContent(<< Block("tool_result", Lit("done"), <<>>, Chars(k)),
                             Block("text", IF k = 1 THEN LongText ELSE Lit("next"), <<>>, <<>>) >>)),
     Message("assistant",
             BlockContent(<< Block("text", IF k = 2 THEN LongText ELSE Lit("calling"), <<>>, <<>>),
                             Block("tool_use", EmptyText, Chars(k % 3), Chars(k + 1)) >>)) >>

\* The first n exchanges, as one list of messages.
Turns(n) == [j \in 1..(2 * n) |-> Turn((j + 1) \div 2)[2 - (j % 2)]]

\* ManyMessages short messages, the user's and the assistant's in turn, the
\* last one the user's.
LongConversation ==
  [j \in 1..ManyMessages |->
     IF j = ManyMessages THEN Message("user", StringContent(Lit("last")))
     ELSE IF j % 2 = 1 THEN Message("user", StringContent(Lit("q")))
     ELSE Message("assistant", StringContent(Lit("a")))]

\* A schema with a long description and a long pattern, with properties that
\* are called 'description' and 'title', with a number under 'title', and
\* with a key that is skipped, a null and a list.
SearchSchema ==
  JsonObject(<<
    Entry("$schema", JsonString(Lit("http://json-schema.org/draft-07/schema#"))),
    Entry("type", JsonString(Lit("object"))),
    Entry("title", JsonString(Lit("Search"))),
    Entry("description", JsonString(Text("long-description", LongDescriptionLen))),
    Entry("properties", JsonObject(<<
      Entry("description", JsonObject(<< Entry("type", JsonString(Lit("string"))) >>)),
      Entry("title", JsonObject(<< Entry("type", JsonString(Lit("string"))),
                                   Entry("pattern",
                                         JsonString(Text("long-pattern", LongDescriptionLen))) >>)),
      Entry("limit", JsonObject(<< Entry("type", JsonString(Lit("integer"))),
                                   Entry("title", JsonNumber(5)),
                                   Entry("default", JsonNull) >>)),
      Entry("tags", JsonObject(<< Entry("type", JsonString(Lit("array"))),
                                  Entry("enum", JsonArray(<< JsonString(Lit("a")), JsonNull,
                                                             JsonBoolean(TRUE) >>)) >>)) >>)),
    Entry("required", JsonArray(<< JsonString(Lit("description")) >>)),
    Entry("additionalProperties", JsonBoolean(FALSE)) >>)

\* { properties: { a: { properties: { a: ... } } } }, n objects deep.
RECURSIVE Nested(_)
Nested(n) ==
  IF n = 0 THEN JsonObject(<< Entry("type", JsonString(Lit("string"))) >>)
  ELSE JsonObject(<< Entry("type", JsonString(Lit("object"))),
                     Entry("properties", JsonObject(<< Entry("a", Nested(n - 1)) >>)) >>)

\* Deeper than sanitizeSchemaValue follows.
DeepNesting == 4

SampleRequests ==
  { \* a plain question
    Request("claude-sonnet-4", NoSystem, NoThinking,
            << Message("user", StringContent(Lit("hi"))) >>, Absent, "none"),
    \* the only tool is the unsupported web search, and a tool must be used
    Request("claude-sonnet-4", NoSystem, NoThinking,
            << Message("user", StringContent(Lit("hi"))) >>,
            Items(<< ForeignTool(WebSearch, Lit("search the web")) >>), "any"),
    \* a supported tool next to the unsupported one, and tool_choice 'auto'
    Request("claude-opus-4", StringSystem(Lit("be brief")), NoThinking,
            << Message("User", StringContent(Lit("hi"))),
               Message("system", StringContent(Lit("ignored"))),
               Message("user", StringContent(Lit("there"))) >>,
            Items(<< ForeignTool(WebSearchCaps, Lit("search")),
                     ForeignTool(<<"a">>, Lit("tool a")) >>), "auto"),
    \* names that repeat, that sanitize to the same identifier, that start with a digit
    Request("claude-haiku-4", NoSystem, NoThinking,
            << Message("user", StringContent(Lit("hi"))),
               Message("assistant",
                       BlockContent(<< BlockWith("tool_use", EmptyText, <<"a", ".", "b">>, <<"1">>,
                                                 JsonString(stringify(QueryInput))),
                                       Block("tool_use", EmptyText, WebSearch, <<"2">>) >>)),
               Message("user",
                       BlockContent(<< Block("tool_result", EmptyText, <<>>, <<"\t", "1", " ", "\n">>) >>)) >>,
            Items(<< ForeignTool(<<"a">>, Lit("first")),
                     ForeignTool(<<"a", "-", "b">>, Lit("second")),
                     ForeignTool(<<"a">>, Lit("again")),
                     ForeignTool(<<"3", "-", "l">>, Lit("digit")),
                     ForeignTool(<<"-">>, Lit("no letters")),
                     ForeignTool(<<>>, Lit("no name")) >>), "tool"),
    \* a long conversation with long texts and many tools
    Request("Claude-Sonnet", StringSystem(Lit("be brief")), [enabled |-> TRUE, budget_tokens |-> 0],
            Turns(ManyTurns) \o << Message("user", StringContent(LongText)) >>,
            Items([k \in 1..ManyTools |->
                     ForeignTool(Chars(k), Text("long-description", LongDescriptionLen))]),
            "any"),
    \* the conversation ends with the assistant
    Request("claude-sonnet-4", StringSystem(Lit("<thinking_mode>disabled</thinking_mode>")),
            [enabled |-> TRUE, budget_tokens |-> 2048],
            << Message("user", StringContent(Lit("hi"))),
               Message("user", NullContent),
               Message("assistant",
                       BlockContent(<< Block("thinking", Lit("hm"), <<>>, <<>>),
                                       Block("text", Lit("hello"), <<>>, <<>>) >>)) >>,
            Items(<< ForeignTool(<<"a">>, Lit("tool a")) >>), "none"),
    \* more messages than normalizeMessageList keeps
    Request("claude-sonnet-4", NoSystem, NoThinking, LongConversation, Absent, "none"),
    \* thinking without a system prompt; runs of user and of assistant messages
    Request("claude-haiku-4", NoSystem, [enabled |-> TRUE, budget_tokens |-> 2048],
            << Message("user", StringContent(Lit("hi"))),
               Message("user",
                       BlockContent(<< Block("tool_result", Lit("done"), <<>>, <<"9">>),
                                       Block("text", Lit("there"), <<>>, <<>>) >>)),
               Message("assistant", StringContent(Lit("hello"))),
               Message("assistant",
                       BlockContent(<< Block("text", Lit("again"), <<>>, <<>>),
                                       BlockWith("tool_use", EmptyText, <<"a">>, <<"9">>,
                                                 JsonString(Lit("not json"))),
                                       BlockWith("tool_use", EmptyText, <<"a">>, <<"1", "0">>,
                                                 JsonString(stringify(JsonArray(<< JsonNumber(1) >>)))),
                                       BlockWith("tool_use", EmptyText, <<"a">>, <<"1", "1">>,
                                                 Undefined) >>)),
               Message("user", StringContent(Lit("go"))) >>,
            Items(<< ForeignTool(<<"a">>, Lit("tool a")) >>), "auto"),
    \* thinking with the empty string as the system prompt
    Request("claude-haiku-4", StringSystem(EmptyText), [enabled |-> TRUE, budget_tokens |-> 0],
            << Message("user", StringContent(Lit("hi"))) >>, Absent, "none"),
    \* thinking with a system prompt of one block without text
    Request("claude-haiku-4", BlockSystem(<< EmptyText >>),
            [enabled |-> TRUE, budget_tokens |-> 2048],
            << Message("user", StringContent(Lit("hi"))) >>, Absent, "none"),
    \* a system prompt of blocks, and the assistant speaks first
    Request("claude-haiku-4", BlockSystem(<< Lit("be"), EmptyText, Lit("brief") >>),
            [enabled |-> TRUE, budget_tokens |-> 2048],
            << Message("assistant", StringContent(Lit("hello"))),
               Message("user", StringContent(Lit("hi"))) >>, Absent, "none"),
    \* tools with schemas; uses of the web search and of a tool, with their results
    Request("claude-sonnet-4", NoSystem, NoThinking,
            << Message("user", StringContent(Lit("find"))),
               Message("assistant",
                       BlockContent(<< Block("tool_use", EmptyText, WebSearch, <<"w", "1">>),
                                       Block("tool_use", EmptyText, <<"s">>, <<"s", " ", "1">>) >>)),
               Message("user",
                       BlockContent(<< Block("tool_result", Lit("found"), <<>>, <<"w", "1">>),
                                       Block("tool_result", Lit("done"), <<>>, <<"s", " ", "1">>),
                                       Block("text", Lit("next"), <<>>, <<>>) >>)) >>,
            Items(<< ForeignToolWith(<<"s">>, Lit("search"), SearchSchema),
                     ForeignToolWith(<<"d">>, Lit("deep"), Nested(DeepNesting)),
                     ForeignToolWith(<<"e">>, Lit("skipped keys only"),
                                     JsonObject(<< Entry("$id", JsonString(Lit("e"))) >>)),
                     ForeignToolWith(<<"l">>, Lit("a list"),
                                     JsonArray(<< JsonString(Lit("a")) >>)),
                     ForeignToolWith(<<"s", "e", "a", "r", "c", "h", "_", "d", "o", "c", "s">>,
                                     Lit("a schema that is not JSON"),
                                     JsonString(Lit("not json"))),
                     ForeignToolWith(<<"n">>, Lit("no schema"), JsonNull) >>), "auto"),
    \* a model without a mapping
    Request("gpt-4", NoSystem, NoThinking,
            << Message("user", StringContent(Lit("hi"))) >>, Absent, "none"),
    \* no user or assistant message
    Request("claude-sonnet-4", NoSystem, NoThinking,
            << Message("system", StringContent(Lit("hi"))) >>, Absent, "none") }

SampleCompatValues ==
  { CompatValue("", FALSE, FALSE), CompatValue("strict", FALSE, FALSE),
    CompatValue("balanced", FALSE, FALSE), CompatValue("relaxed", FALSE, FALSE),
    CompatValue("balanced", TRUE, TRUE), CompatValue("loose", FALSE, FALSE) }

SampleStatuses == {200, 400, 500}

SampleTexts ==
  { "Improperly formed request.", "Malformed input", "type: invalid_request_error",
    "Rate exceeded" }

Uuids(a, c) == [agentContinuationId |-> a, conversationId |-> c]

FirstUuids == Uuids("uuid-1", "uuid-2")
LaterUuids == {Uuids("uuid-3", "uuid-4"), Uuids("uuid-5", "uuid-6")}

\* Bodies that convertRequest does not produce.
OddBodies ==
  LET base == convertRequest(CHOOSE r \in SampleRequests :
                               r.model = "claude-opus-4", FirstUuids, "arn").kiroRequest
  IN { NoBody,
       \* no currentMessage
       [base EXCEPT !.keys = << "agentContinuationId", "agentTaskType", "chatTriggerType",
                               "conversationId", "history" >>,
                    !.chatTriggerType = "AUTO",
                    !.current = NoBody.current,
                    !.history = << UserEntry(LongText, "m", NoCtx) >>],
       \* no history, and tools that a fallback removes
       [base EXCEPT !.keys = << "agentContinuationId", "agentTaskType", "chatTriggerType",
                               "currentMessage", "conversationId" >>,
                    !.chatTriggerType = "AUTO",
                    !.current.content = Lit("continue"),
                    !.history = <<>>],
       \* no identifiers, a blank current text, a padded and a 'Continue' text in the history
       [base EXCEPT !.agentContinuationId = "", !.conversationId = "", !.agentTaskType = "",
                    !.keys = << "history", "chatTriggerType", "currentMessage" >>,
                    !.current.content = Lit("  "), !.current.origin = "",
                    !.history = << UserEntry(Lit(" hi "), "m", NoCtx),
                                   AssistantEntry(Lit("ok"), Absent),
                                   UserEntry(Lit("Continue"), "m", NoCtx) >>],
       \* an empty context, tools inside a history context, a truncated text
       [base EXCEPT !.chatTriggerType = "AUTO",
                    !.current.content = truncateString(LongText, SingleTurnContentLimit),
                    !.current.ctx = [present |-> TRUE, tools |-> Items(<<>>),
                                     toolResults |-> Absent],
                    !.history = << UserEntry(Lit("continue"), "m",
                                             [present |-> TRUE,
                                              tools |-> base.current.ctx.tools,
                                              toolResults |-> Absent]) >>] }

FallbackModes == {"compact-tools", "no-tools", "trim-history", "minimal-history", "single-turn"}

(* ------------------------------ callApiStream -------------------------- *)

NoDebug == [mode |-> "", body |-> summarizeForDebug(NoBody)]

NoResult ==
  [kind |-> "none", status |-> 0, responseText |-> "", requestDebug |-> NoDebug,
   toolNameMap |-> <<>>]

NoProbe == [body |-> NoBody, mode |-> "", prevBody |-> NoBody, prevMode |-> ""]

\* A call about to start, with the configuration and the request it is given.
newCall(compat, anthropicReq) ==
  [pc |-> "start", config |-> [anthropicCompatMode |-> compat], anthropicReq |-> anthropicReq,
   profileArn |-> IF anthropicReq.tool_choice = "none" THEN "" ELSE "arn",
   requests |-> <<>>, i |-> 0, sent |-> <<>>, responses |-> <<>>, result |-> NoResult,
   probe |-> NoProbe]

\* A body about to be put through the fallback transformations.
newProbe(body) ==
  [newCall(CompatValue("", FALSE, FALSE), CHOOSE r \in SampleRequests : r.model = "gpt-4")
     EXCEPT !.pc = "probe", !.probe = [NoProbe EXCEPT !.body = body]]

SampleBodies ==
  { convertRequest(r, FirstUuids, "arn").kiroRequest : r \in SampleRequests } \cup OddBodies

\* A client next to a pool that is not used during the call.
InitClient ==
  /\ pool = newPool(FALSE)
  /\ db = NoDb
  /\ file = MissingFile
  /\ limits = Limits(MaxCount, MaxErrors, MaxWaiters, MaxMtimeMs, MaxBusy)
  /\ timers = <<>>
  /\ detached = NoDetached
  /\ waiters = <<>>
  /\ ready = <<>>
  /\ phase = "new"
  /\ usageCalls = <<>>
  /\ hist = [picked |-> NoPicks, rr |-> 0]
  /\ call \in { newCall(c, r) : c \in SampleCompatValues, r \in SampleRequests }
              \cup { newProbe(b) : b \in SampleBodies }

\* Line 796: ensureValidToken() rejects and the call fails before any request.
TokenFails ==
  /\ call.pc = "start"
  /\ call' = [call EXCEPT !.pc = "done", !.result = [NoResult EXCEPT !.kind = "Error"]]
  /\ UNCHANGED poolVars

\* Lines 800-809: the request is translated and the bodies of all modes are prepared.
Convert ==
  /\ call.pc = "start"
  /\ \E conv \in {convertRequest(call.anthropicReq, FirstUuids, call.profileArn)} :
       IF ~conv.ok
       THEN call' = [call EXCEPT !.pc = "done", !.result = [NoResult EXCEPT !.kind = "Error"]]
       ELSE \E uuids \in LaterUuids :
              call' = [call EXCEPT !.pc = "send",
                                   !.requests = buildRequests(conv.kiroRequest,
                                                              getFallbackModes(call.config), uuids),
                                   !.i = 1,
                                   !.result = [NoResult EXCEPT !.toolNameMap = conv.toolNameMap]]
  /\ UNCHANGED poolVars

\* Lines 811-831: attempt i is posted.
Send ==
  /\ call.pc = "send"
  /\ call' = [call EXCEPT !.pc = "fetch", !.sent = Append(@, call.requests[call.i])]
  /\ UNCHANGED poolVars

\* Line 829: fetch rejects.
FetchFails ==
  /\ call.pc = "fetch"
  /\ call' = [call EXCEPT !.pc = "done", !.result.kind = "Error"]
  /\ UNCHANGED poolVars

\* A response whose text is not read yet.
Response(status) == [status |-> status, text |-> "", read |-> FALSE]

\* Lines 829-832: the response to attempt i arrives; a response that is ok
\* is returned, and the text of any other is awaited.
Respond(status) ==
  /\ call.pc = "fetch"
  /\ call' = IF Ok(status)
             THEN [call EXCEPT !.pc = "done", !.responses = Append(@, Response(status)),
                               !.result.kind = "success"]
             ELSE [call EXCEPT !.pc = "text", !.responses = Append(@, Response(status))]
  /\ UNCHANGED poolVars

\* Line 834: response.text() rejects and the call fails with that error.
TextFails ==
  /\ call.pc = "text"
  /\ call' = [call EXCEPT !.pc = "done", !.result.kind = "Error"]
  /\ UNCHANGED poolVars

\* Lines 834-847: the text of the response to attempt i is read.
ReadText(errorText) ==
  /\ call.pc = "text"
  /\ LET response == [call.responses[Len(call.responses)] EXCEPT !.text = errorText,
                                                                !.read = TRUE]
         received == [call.responses EXCEPT ![Len(call.responses)] = response]
         canRetry == call.i < Len(call.requests)
                     /\ shouldRetryImproperlyFormed(response.status, errorText)
     IN IF canRetry
        THEN call' = [call EXCEPT !.pc = "send", !.responses = received, !.i = call.i + 1]
        ELSE call' = [call EXCEPT !.pc = "done", !.responses = received,
                                  !.result = [kind |-> "KiroApiError",
                                              status |-> response.status,
                                              responseText |-> errorText,
                                              requestDebug |-> requestDebug(call.requests, call.i),
                                              toolNameMap |-> call.result.toolNameMap]]
  /\ UNCHANGED poolVars

\* Lines 332-393: buildFallbackRequest is applied to the body at hand.
ApplyFallback(mode, uuids) ==
  /\ call.pc = "probe"
  /\ call' = [call EXCEPT !.probe = [body |-> buildFallbackRequest(call.probe.body, mode, uuids).req,
                                     mode |-> mode,
                                     prevBody |-> call.probe.body,
                                     prevMode |-> call.probe.mode]]
  /\ UNCHANGED poolVars

NextClient ==
  \/ TokenFails
  \/ Convert
  \/ Send
  \/ FetchFails
  \/ \E status \in SampleStatuses : Respond(status)
  \/ TextFails
  \/ \E errorText \in SampleTexts : ReadText(errorText)
  \/ \E mode \in FallbackModes, uuids \in LaterUuids : ApplyFallback(mode, uuids)

SpecClient == InitClient /\ [][NextClient]_vars

(* ------------------------- structural invariants ----------------------- *)

\* A timer whose object is in the map finds it there; a detached object is
\* referred to by a timer.
TimersWellFormed ==
  /\ \A i \in 1..Len(timers) :
       IF timers[i].obj = 0 THEN HasId(pool.accounts, timers[i].id)
       ELSE timers[i].obj \in DOMAIN detached
  /\ \A k \in DOMAIN detached : \E i \in 1..Len(timers) : timers[i].obj = k

\* A queued selection write that reads its counters in the map finds its
\* account there, selected and stamped.
ImmediatesWellFormed ==
  \A i \in 1..Len(db.pending) :
    LET w == db.pending[i] IN
    /\ w.live => HasId(pool.accounts, w.id)
    /\ LET selected == IF w.live THEN MapGet(pool.accounts, w.id) ELSE w IN
       selected.requestCount > 0 /\ selected.lastUsedAt = Iso

\* Each key appears once in the accounts map.
KeysDistinct ==
  \A i, j \in 1..Len(pool.accounts) :
    pool.accounts[i].id = pool.accounts[j].id => i = j

(* ------------------------------- claims -------------------------------- *)

\* Positions of the active accounts of the pool, in insertion order.
ActiveAt(accs) == {i \in 1..Len(accs) : accs[i].status = "active"}

\* Positions of the active accounts whose requestCount is minimal among them.
LeastUsedAt(accs) ==
  {i \in ActiveAt(accs) :
     \A j \in ActiveAt(accs) : accs[i].requestCount <= accs[j].requestCount}

First(S) == CHOOSE i \in S : \A j \in S : i <= j
Last(S) == CHOOSE i \in S : \A j \in S : i >= j

\* C1: in every reachable pool state and under every strategy, whatever the
\* random draw, selectAccount returns an account that is in the pool with
\* status 'active' at that moment, and it returns no account exactly when
\* no account of the pool is active.
C1_SelectsOnlyActive ==
  \A rnd \in RandomChoices(pool) :
    LET r == selectAccount(pool, rnd) IN
    /\ (r.id = Null) <=> (ActiveAt(pool.accounts) = {})
    /\ r.id # Null =>
         \E i \in ActiveAt(pool.accounts) : pool.accounts[i].id = r.id

\* C1 witness: a selection has been made under a strategy other than
\* round-robin while the pool holds an active and a non-active account.
C1_Witness ==
  /\ pool.strategy # "round-robin"
  /\ hist.rr = 0
  /\ \E id \in Ids : hist.picked[id] > 0
  /\ ActiveAt(pool.accounts) # {}
  /\ \E i \in 1..Len(pool.accounts) : pool.accounts[i].status \in {"cooldown", "disabled"}

\* C2: under round-robin a selection returns the active account at position
\* (cursor mod number of active accounts) of the active accounts in insertion
\* order and leaves the cursor one higher; and from a pool holding A then B,
\* both active, with cursor 0, the calls select, disable A, select, enable A,
\* select, select return A, B, A, B.
C2_RoundRobin ==
  /\ (pool.strategy = "round-robin" /\ ActiveAt(pool.accounts) # {}) =>
       LET r == selectAccount(pool, 0)
           n == Cardinality(ActiveAt(pool.accounts))
           k == pool.roundRobinIndex % n
           at == CHOOSE i \in ActiveAt(pool.accounts) :
                   Cardinality({j \in ActiveAt(pool.accounts) : j < i}) = k
       IN /\ r.id = pool.accounts[at].id
          /\ r.pool.roundRobinIndex = pool.roundRobinIndex + 1
  /\ ( /\ pool.strategy = "round-robin"
       /\ pool.roundRobinIndex = 0
       /\ ~pool.sharedMode
       /\ Len(pool.accounts) = 2
       /\ pool.accounts[1].id = "A" /\ pool.accounts[2].id = "B"
       /\ ActiveAt(pool.accounts) = {1, 2} ) =>
       LET s1 == selectAccount(pool, 0)
           d1 == disableAccount(s1.pool, "A")
           s2 == selectAccount(d1.pool, 0)
           e2 == enableAccount(s2.pool, "A")
           s3 == selectAccount(e2.pool, 0)
           s4 == selectAccount(s3.pool, 0)
       IN <<s1.id, s2.id, s3.id, s4.id>> = <<"A", "B", "A", "B">>

\* C2 witness: the pool after select (A), disable A, select (B) from A, B
\* with cursor 0: each picked once, A disabled, cursor 2.
C2_Witness ==
  /\ pool.strategy = "round-robin"
  /\ pool.roundRobinIndex = 2
  /\ hist = [picked |-> [i \in Ids |-> 1], rr |-> 2]
  /\ Len(pool.accounts) = 2
  /\ pool.accounts[1].id = "A" /\ pool.accounts[1].status = "disabled"
  /\ pool.accounts[2].id = "B" /\ pool.accounts[2].status = "active"

\* C3 as stated: under least-used the account returned is active, has the
\* minimal requestCount among the active accounts, and is the earliest
\* inserted of the active accounts with that requestCount.
C3_EarliestOnTie ==
  (pool.strategy = "least-used" /\ ActiveAt(pool.accounts) # {}) =>
    selectAccount(pool, 0).id = pool.accounts[First(LeastUsedAt(pool.accounts))].id

\* C3 amended: under least-used the account returned is active, has the
\* minimal requestCount among the active accounts, and is the latest
\* inserted of the active accounts with that requestCount.
C3_LatestOnTie ==
  (pool.strategy = "least-used" /\ ActiveAt(pool.accounts) # {}) =>
    selectAccount(pool, 0).id = pool.accounts[Last(LeastUsedAt(pool.accounts))].id

\* C3 witness: least-used has selected, and two active accounts tie again.
C3_Witness ==
  /\ pool.strategy = "least-used"
  /\ hist.rr = 0
  /\ \A id \in Ids : hist.picked[id] = 1
  /\ Cardinality(LeastUsedAt(pool.accounts)) = 2

\* C4: a selection that returns an account leaves that account with its
\* requestCount one higher and its lastUsedAt set, returns the token manager
\* registered under the same id, and changes nothing else of any account nor
\* the order of the accounts; a selection that returns no account leaves the
\* pool, cursor included, as it was.
C4_SelectionEffect ==
  \A rnd \in RandomChoices(pool) :
    LET r == selectAccount(pool, rnd) IN
    IF r.id = Null THEN r.pool = pool
    ELSE /\ Len(r.pool.accounts) = Len(pool.accounts)
         /\ \A i \in 1..Len(pool.accounts) :
              LET old == pool.accounts[i]
                  new == r.pool.accounts[i] IN
              IF old.id = r.id
              THEN /\ new.requestCount = old.requestCount + 1
                   /\ new.lastUsedAt = Iso
                   /\ new = [old EXCEPT !.requestCount = new.requestCount,
                                        !.lastUsedAt = new.lastUsedAt]
              ELSE new = old
         /\ r.id \in DOMAIN pool.tokenManagers
         /\ r.tokenManager = pool.tokenManagers[r.id]
         /\ r.tokenManager.key = r.id
         /\ r.pool.tokenManagers = pool.tokenManagers

\* C4 witness: A has been selected twice, B never, after an error on B.
C4_Witness ==
  /\ Len(pool.accounts) = 2
  /\ \E i, j \in 1..2 :
       /\ pool.accounts[i].id = "A" /\ pool.accounts[j].id = "B"
       /\ pool.accounts[i].requestCount = 2 /\ pool.accounts[i].lastUsedAt = Iso
       /\ pool.accounts[j].requestCount = 0 /\ pool.accounts[j].lastUsedAt = Null
       /\ pool.accounts[j].errorCount = 1
  /\ hist.picked["A"] = 2

\* A selection returns an account in this step: the only step that raises
\* the count of the selections that returned an id.
Selects == \E id \in Ids : hist'.picked[id] = hist.picked[id] + 1

TimerFires == timers # <<>> /\ timers' = Tail(timers)

\* C6 as stated: when the timer of a rate-limit error fires and the account
\* of its id is still in the pool in 'cooldown' (no recovery, disable or
\* invalidation since the error), that account is 'active' after the firing,
\* whatever selections, syncs and reloads happened during the cooldown.
C6_CooldownEndsAfterTimer ==
  [][ (/\ TimerFires
       /\ HasId(pool.accounts, Head(timers).id)
       /\ StatusOf(pool.accounts, Head(timers).id) = "cooldown")
      => StatusOf(pool'.accounts, Head(timers).id) = "active" ]_vars

\* C7 as stated: when a cooldown timeout fires and the account of its id has
\* meanwhile become 'invalid' or 'disabled', the firing leaves that status
\* as it is, in the pool and in the account's row of the database.
C7_TimerKeepsLaterStatus ==
  [][ (/\ TimerFires
       /\ HasId(pool.accounts, Head(timers).id)
       /\ StatusOf(pool.accounts, Head(timers).id) \in {"invalid", "disabled"})
      => /\ HasId(pool'.accounts, Head(timers).id)
         /\ StatusOf(pool'.accounts, Head(timers).id)
              = StatusOf(pool.accounts, Head(timers).id)
         /\ \A i \in 1..Len(db.rows) :
              db.rows[i].id = Head(timers).id =>
                /\ i <= Len(db'.rows)
                /\ db'.rows[i].status = db.rows[i].status ]_vars

\* C8 as stated: no step of selectAccount, recordError, a cooldown timeout,
\* recoverCooldown, recoverAllCooldowns or markInvalid changes the status of
\* an account that is 'invalid'.
C8_InvalidIsTerminal ==
  [][ (\/ SelectAccount
       \/ \E id \in Ids, isRateLimit \in BOOLEAN : RecordError(id, isRateLimit)
       \/ CooldownTimer
       \/ \E id \in Ids : RecoverCooldown(id)
       \/ RecoverAllCooldowns
       \/ \E id \in Ids : MarkInvalid(id))
      => \A i \in 1..Len(pool.accounts) :
           pool.accounts[i].status = "invalid" =>
             /\ HasId(pool'.accounts, pool.accounts[i].id)
             /\ StatusOf(pool'.accounts, pool.accounts[i].id) = "invalid" ]_vars

\* C9 as stated: outside shared mode the only status change enableAccount
\* makes is disabled -> active and the only one disableAccount makes is
\* active -> disabled; on an account in 'cooldown' or 'invalid' neither
\* changes the status.
C9_EnableDisableOnlyToggle ==
  [][ \A id \in Ids :
        (~pool.sharedMode /\ HasId(pool.accounts, id)) =>
          /\ EnableAccount(id) =>
               \/ StatusOf(pool'.accounts, id) = StatusOf(pool.accounts, id)
               \/ /\ StatusOf(pool.accounts, id) = "disabled"
                  /\ StatusOf(pool'.accounts, id) = "active"
          /\ DisableAccount(id) =>
               \/ StatusOf(pool'.accounts, id) = StatusOf(pool.accounts, id)
               \/ /\ StatusOf(pool.accounts, id) = "active"
                  /\ StatusOf(pool'.accounts, id) = "disabled" ]_vars

\* C10: in shared mode addAccount throws, removeAccount, enableAccount and
\* disableAccount return false and removeAccounts reports removed = 0, each
\* leaving the pool (ids, statuses, counters, token managers) as it was; and
\* the database still holds exactly the rows it started with.
C10_SharedModeRejectsWrites ==
  pool.sharedMode =>
    /\ \A account \in SampleNewAccounts, skipValidation \in BOOLEAN, valid \in BOOLEAN :
         addAccount(pool, account.id, account.refreshToken, skipValidation, valid)
           = [pool |-> pool, threw |-> TRUE]
    /\ \A id \in Ids :
         /\ removeAccount(pool, id) = [pool |-> pool, result |-> FALSE]
         /\ enableAccount(pool, id) = [pool |-> pool, result |-> FALSE]
         /\ disableAccount(pool, id) = [pool |-> pool, result |-> FALSE]
    /\ \A ids \in SUBSET Ids : removeAccounts(pool, ids) = [pool |-> pool, removed |-> 0]
    /\ db = PopulatedDb

\* C10 witness: a shared pool of two accounts, one of them selected and then
\* rate-limited (counters the database has not been given), on which every
\* write operation would have an effect outside shared mode.
C10_Witness ==
  /\ pool.sharedMode
  /\ CanRun
  /\ Len(pool.accounts) = 2
  /\ \E i \in 1..2 :
       /\ pool.accounts[i].status = "cooldown"
       /\ pool.accounts[i].requestCount = 1
       /\ pool.accounts[i].errorCount = 1

\* The sync in flight ends in this step by swapping in the parsed file.
Reloads ==
  /\ pool.sharedSyncPromise.pc = "read"
  /\ pool'.sharedSyncPromise.pc = "none"
  /\ file.exists /\ file.content.kind = "array"
  /\ SyncRead(FALSE)

\* The sync in flight ends in this step on a missing file: fs.stat answers
\* ENOENT.
FindsFileMissing ==
  /\ pool.sharedSyncPromise.pc = "stat"
  /\ pool'.sharedSyncPromise.pc = "none"
  /\ ~file.exists
  /\ SyncStat(FALSE)

\* The records of a parsed file that normalize to an account.
Normalized(content) == SelectSeq(content.records, LAMBDA raw : raw.refreshToken)

ParsedIds(content) == {Normalized(content)[i].id : i \in 1..Len(Normalized(content))}

\* The last record of the file that normalizes to an account with this id.
LastRecord(content, id) ==
  LET recs == SelectSeq(Normalized(content), LAMBDA raw : raw.id = id) IN recs[Len(recs)]

\* C11: in shared mode a sync that parses the file leaves the pool with
\* exactly the ids of the file's records that have a refresh token, a sync
\* that finds the file missing (an empty file) leaves it empty, and no other
\* step adds or removes an id; the token-manager map holds the same ids.
C11_IdsFollowFile ==
  [][ /\ KeysOf(pool'.accounts) =
           IF Reloads THEN ParsedIds(file.content)
           ELSE IF FindsFileMissing THEN {}
           ELSE KeysOf(pool.accounts)
      /\ DOMAIN pool'.tokenManagers = KeysOf(pool'.accounts) ]_vars

\* C11 witness: the pool holds only A after a reload, while the timer of a
\* rate-limit error recorded on B, which the reload dropped, is pending.
C11_Witness ==
  /\ pool.sharedMode
  /\ KeysOf(pool.accounts) = {"A"}
  /\ pool.sharedSyncPromise.pc = "none"
  /\ \E i \in 1..Len(timers) : timers[i].id = "B" /\ timers[i].obj # 0

\* C12 as stated: a reload leaves every account whose id is in the pool
\* before and after it with its requestCount, errorCount and lastUsedAt, and
\* in 'cooldown' if it was in cooldown, whatever status the file reports.
C12_ReloadKeepsRuntimeFields ==
  [][ Reloads =>
        \A id \in KeysOf(pool.accounts) \cap KeysOf(pool'.accounts) :
          LET old == MapGet(pool.accounts, id)
              new == MapGet(pool'.accounts, id) IN
          /\ new.requestCount = old.requestCount
          /\ new.errorCount = old.errorCount
          /\ new.lastUsedAt = old.lastUsedAt
          /\ old.status = "cooldown" => new.status = "cooldown" ]_vars

\* C12 amended: a reload leaves every account whose id is in the pool before
\* and after it with its requestCount and errorCount, with its lastUsedAt if
\* it had one and otherwise with the lastUsedAt of its record in the file,
\* and in 'cooldown' if it was in cooldown, whatever status the file reports.
C12_ReloadKeepsCountersAndCooldown ==
  [][ Reloads =>
        \A id \in KeysOf(pool.accounts) \cap KeysOf(pool'.accounts) :
          LET old == MapGet(pool.accounts, id)
              new == MapGet(pool'.accounts, id) IN
          /\ new.requestCount = old.requestCount
          /\ new.errorCount = old.errorCount
          /\ new.lastUsedAt = IF old.lastUsedAt # Null THEN old.lastUsedAt
                              ELSE LastRecord(file.content, id).lastUsedAt
          /\ old.status = "cooldown" => new.status = "cooldown" ]_vars

\* C12 witness: a reload of a file that lists B as active has replaced the
\* object of B, selected once and in cooldown: B is in cooldown with its counters.
C12_Witness ==
  /\ pool.sharedMode
  /\ pool.sharedSyncPromise.pc = "none"
  /\ HasId(pool.accounts, "B")
  /\ MapGet(pool.accounts, "B").status = "cooldown"
  /\ MapGet(pool.accounts, "B").requestCount = 1
  /\ MapGet(pool.accounts, "B").errorCount = 1
  /\ MapGet(pool.accounts, "B").lastUsedAt = Iso
  /\ timers = <<[id |-> "B", obj |-> 1]>>
  /\ file.exists /\ file.content.kind = "array"
  /\ mapStatus(LastRecord(file.content, "B").status) = "active"

\* The operations that wait in a queue, with their arguments.
Callers(queue) == [i \in 1..Len(queue) |-> [op |-> queue[i].op, id |-> queue[i].id]]

\* C13: while a sync is in flight a step either leaves it as it is, or moves
\* it from its stat to its read, or ends it; no call (of the timer,
\* selectAccount, listAccounts, getStats, the recover and the refresh
\* operations, load or a caller of syncSharedAccounts, forced or not)
\* restarts it or starts a second one,
\* callers are only queued behind it, and when it ends, with or without a
\* reload, the handle is cleared and all queued callers resume, in order;
\* with no sync in flight nobody waits and a call starts one.
C13_SingleSyncInFlight ==
  /\ [](pool.sharedSyncPromise.pc = "none" =>
          /\ waiters = <<>>
          /\ pool.sharedMode =>
               syncSharedAccounts(pool, FALSE).sharedSyncPromise.pc = "stat")
  /\ [][ pool.sharedSyncPromise.pc # "none" =>
           \/ /\ pool'.sharedSyncPromise = pool.sharedSyncPromise
              /\ Len(waiters') >= Len(waiters)
              /\ SubSeq(waiters', 1, Len(waiters)) = waiters
              /\ ready' = ready \/ (ready # <<>> /\ ready' = Tail(ready))
           \/ /\ pool.sharedSyncPromise.pc = "stat"
              /\ pool'.sharedSyncPromise =
                   [pool.sharedSyncPromise EXCEPT !.pc = "read", !.mtimeMs = file.mtimeMs]
              /\ waiters' = waiters
              /\ ready' = ready
           \/ /\ pool'.sharedSyncPromise = NoSync
              /\ Callers(ready') = Callers(waiters)
              /\ waiters' = <<>> ]_vars

\* C13 witness: two callers are queued behind a sync that is reading.
C13_Witness ==
  /\ pool.sharedSyncPromise.pc = "read"
  /\ Len(waiters) = 2
  /\ phase = "ready"

\* C14: in every state the accounts map and the token-manager map have the
\* same keys, each manager is the one made for its key and holds the
\* credentials of the account under that key, and no selection returns an
\* account without its manager.
C14_MapsSwapTogether ==
  /\ KeysOf(pool.accounts) = DOMAIN pool.tokenManagers
  /\ \A i \in 1..Len(pool.accounts) :
       LET a == pool.accounts[i] IN
       /\ a.id \in DOMAIN pool.tokenManagers
       /\ pool.tokenManagers[a.id].key = a.id
       /\ pool.tokenManagers[a.id].refreshToken = a.refreshToken
  /\ \A rnd \in RandomChoices(pool) :
       selectAccount(pool, rnd).id # Null =>
         selectAccount(pool, rnd).tokenManager # NoManager

\* C14 witness: after a second reload the pool holds B then A, the file's
\* order, with a manager for each, and a caller is about to select.
C14_Witness ==
  /\ pool.sharedMode
  /\ pool.sharedAccountsMtimeMs = 2
  /\ Len(pool.accounts) = 2
  /\ pool.accounts[1].id = "B" /\ pool.accounts[2].id = "A"
  /\ DOMAIN pool.tokenManagers = {"A", "B"}
  /\ ready # <<>> /\ Head(ready).op = "selectAccount"

\* C15: recoverCooldown(id) makes account id 'active' exactly when it was in
\* 'cooldown' and changes nothing else; recoverAllCooldowns makes every
\* account in 'cooldown' 'active', changes nothing else, and reports the
\* number of accounts that were in cooldown as recovered and the size of the
\* pool as total.
C15_RecoveryOnlyFromCooldown ==
  /\ \A id \in Ids :
       LET r == recoverCooldown(pool, id) IN
       /\ r.result = (id \in KeysOf(pool.accounts))
       /\ Len(r.pool.accounts) = Len(pool.accounts)
       /\ \A i \in 1..Len(pool.accounts) :
            r.pool.accounts[i] =
              IF pool.accounts[i].id = id /\ pool.accounts[i].status = "cooldown"
              THEN [pool.accounts[i] EXCEPT !.status = "active"]
              ELSE pool.accounts[i]
       /\ [r.pool EXCEPT !.accounts = pool.accounts] = pool
  /\ LET r == recoverAllCooldowns(pool) IN
     /\ Len(r.pool.accounts) = Len(pool.accounts)
     /\ \A i \in 1..Len(pool.accounts) :
          r.pool.accounts[i] =
            IF pool.accounts[i].status = "cooldown"
            THEN [pool.accounts[i] EXCEPT !.status = "active"]
            ELSE pool.accounts[i]
     /\ r.recovered =
          Cardinality({i \in 1..Len(pool.accounts) : pool.accounts[i].status = "cooldown"})
     /\ r.total = Len(pool.accounts)
     /\ [r.pool EXCEPT !.accounts = pool.accounts] = pool

\* C15 witness: A, rate-limited, is active again before its timer has
\* fired, and B is still invalid.
C15_Witness ==
  /\ CanRun
  /\ ~pool.sharedMode
  /\ Len(pool.accounts) = 2
  /\ HasId(pool.accounts, "A") /\ StatusOf(pool.accounts, "A") = "active"
  /\ MapGet(pool.accounts, "A").errorCount = 1
  /\ HasId(pool.accounts, "B") /\ StatusOf(pool.accounts, "B") = "invalid"
  /\ timers = <<Timer("A")>>

(* ------------------------- claims on the client ------------------------ *)

\* The toolResults and the tools of a context, absent when there is no context.
ResultsOf(ctx) == IF ctx.present THEN ctx.toolResults ELSE Absent
ToolsOf(ctx) == IF ctx.present THEN ctx.tools ELSE Absent

\* The mode list of a configured value, as the retry policy is documented;
\* a value names a mode whatever its capitals and the blanks around it.
ClaimedModes(value) ==
  IF value.word = "balanced"
  THEN <<"primary", "compact-tools", "no-tools", "trim-history">>
  ELSE IF value.word = "relaxed"
  THEN <<"primary", "compact-tools", "no-tools", "trim-history", "minimal-history",
         "single-turn">>
  ELSE <<"primary", "compact-tools">>

\* HTTP 400 received with one of the three phrases in the body.
Retryable(response) ==
  response.read /\ response.status = 400 /\ PhrasesIn(response.text) # {}

Started == call.pc \in {"send", "fetch", "text", "done"} /\ call.requests # <<>>

\* C16: within one callApiStream call the attempts sent are, in order, the
\* first modes of the configured mode list, each once; a further attempt
\* follows an answered attempt exactly when the answer was a 400 whose text
\* was read and holds one of the three phrases and the mode was not the last;
\* a 2xx answer ends the call with success, and a rejected fetch, a text
\* that cannot be read and any answer that is not retried end the call with
\* an error and no further attempt.
C16_RetryLadder ==
  Started =>
    LET modes == ClaimedModes(call.config.anthropicCompatMode)
        n == Len(call.sent)
        answered == Len(call.responses)
    IN /\ n <= Len(modes)
       /\ \A k \in 1..n : call.sent[k].mode = modes[k]
       /\ answered \in {n - 1, n} \cap (0..n)
       /\ \A k \in 1..answered :
            (k < n \/ (k = n /\ call.pc = "send" /\ call.i = n + 1))
              <=> (Retryable(call.responses[k]) /\ k < Len(modes))
       /\ (call.pc = "done" /\ answered = n /\ n > 0) =>
            /\ call.result.kind = "success" <=> Ok(call.responses[n].status)
            /\ (~Ok(call.responses[n].status) /\ call.responses[n].read) =>
                 /\ call.result.kind = "KiroApiError"
                 /\ call.result.status = call.responses[n].status
                 /\ call.result.responseText = call.responses[n].text
            /\ (~Ok(call.responses[n].status) /\ ~call.responses[n].read) =>
                 call.result.kind = "Error"
       /\ (call.pc = "done" /\ answered = n - 1) => call.result.kind = "Error"
       /\ call.pc = "send" => call.i = n + 1 /\ answered = n
       /\ call.pc = "fetch" => answered = n - 1
       /\ call.pc = "text" =>
            answered = n /\ ~Ok(call.responses[n].status) /\ ~call.responses[n].read

\* C16 witness: a balanced call has sent three attempts and the third answer,
\* a 400 that is not retryable, was raised.
C16_Witness ==
  /\ call.pc = "done"
  /\ call.config.anthropicCompatMode.word = "balanced"
  /\ Len(call.sent) = 3
  /\ Len(call.responses) = 3
  /\ call.responses[3].status = 400
  /\ call.responses[3].read
  /\ ~Retryable(call.responses[3])
  /\ call.result.kind = "KiroApiError"

\* C17: when every attempt is answered with a retryable 400, the call ends
\* after as many attempts as the mode list has entries and raises an error
\* with the status and text of the last answer, the last mode and the debug
\* summary of the last body sent.
C17_ExhaustionRaisesLastAttempt ==
  ( /\ call.pc = "done"
    /\ call.responses # <<>>
    /\ Len(call.responses) = Len(call.sent)
    /\ \A k \in 1..Len(call.responses) : Retryable(call.responses[k]) ) =>
    LET modes == ClaimedModes(call.config.anthropicCompatMode)
        n == Len(call.sent)
    IN /\ n = Len(modes)
       /\ call.result.kind = "KiroApiError"
       /\ call.result.status = call.responses[n].status
       /\ call.result.responseText = call.responses[n].text
       /\ call.result.requestDebug.mode = modes[n]
       /\ call.result.requestDebug.body = summarizeForDebug(call.sent[n].body)

\* C17 witness: a strict call was answered twice with a retryable 400, and the
\* summary of its second body differs from that of the primary body.
C17_Witness ==
  /\ call.pc = "done"
  /\ getCompatMode(call.config) = "strict"
  /\ Len(call.sent) = 2
  /\ Len(call.responses) = 2
  /\ Retryable(call.responses[1]) /\ Retryable(call.responses[2])
  /\ call.result.kind = "KiroApiError"
  /\ summarizeForDebug(call.sent[2].body) # summarizeForDebug(call.sent[1].body)

\* C18: applying the fallback transformation of a mode to a body that the
\* same mode has just produced leaves the body as it is.
C18_FallbackIdempotent ==
  (call.pc = "probe" /\ call.probe.mode # "" /\ call.probe.prevMode = call.probe.mode) =>
    call.probe.body = call.probe.prevBody

\* C18 witness: trim-history was applied twice in a row to a body whose
\* current text was cut and whose history was cut to the window.
C18_Witness ==
  /\ call.pc = "probe"
  /\ call.probe.mode = "trim-history"
  /\ call.probe.prevMode = "trim-history"
  /\ call.probe.body.current.content.cut > 0
  /\ Len(call.probe.body.history) = TrimHistoryWindow
  /\ \E i \in 1..TrimHistoryWindow : call.probe.body.history[i].content.cut > 0

\* C19: in every body sent, chatTriggerType is 'AUTO' exactly when the current
\* message carries a non-empty tools list and the foreign tool_choice.type is
\* 'any' or 'tool'.
C19_AutoIffToolsAndChoice ==
  \A k \in 1..Len(call.sent) :
    (call.sent[k].body.chatTriggerType = "AUTO")
      <=> ( /\ hasTools(call.sent[k].body.current.ctx)
            /\ call.anthropicReq.tool_choice \in {"any", "tool"} )

\* ^(t_)?[A-Za-z0-9_]+$
MatchesToolPattern(name) == Len(name) > 0 /\ \A i \in 1..Len(name) : IsWordChar(name[i])

ToolUseNames(body) ==
  UNION { { body.history[i].toolUses.items[j].name :
              j \in 1..Len(body.history[i].toolUses.items) } :
          i \in 1..Len(body.history) }

\* C20: every tool name in the primary body, in the tools list and in the
\* history's tool uses, matches the pattern, and the names of the tools list
\* are pairwise distinct.
C20_ToolNamesValidAndDistinct ==
  Started =>
    LET body == call.requests[1].body
        tools == body.current.ctx.tools.items
    IN /\ \A j \in 1..Len(tools) : MatchesToolPattern(tools[j].name)
       /\ \A name \in ToolUseNames(body) : MatchesToolPattern(name)
       /\ \A j, k \in 1..Len(tools) : j # k => tools[j].name # tools[k].name

\* The tool_use names of the assistant's messages that are not web searches,
\* in order; a block without a name goes under 'tool' (line 729).
ForeignToolUses(messages) ==
  Loop(LAMBDA msg, names :
         IF msg.role = "assistant" /\ msg.content.kind = "blocks"
         THEN names \o SelectSeq(msg.content.blocks,
                                 LAMBDA b : b.type = "tool_use" /\ ~isUnsupportedTool(b.name))
         ELSE names,
       messages, <<>>)

\* The tool uses of the history entries, in order.
EmittedToolUses(history) ==
  Loop(LAMBDA entry, uses : uses \o entry.toolUses.items, history, <<>>)

\* The foreign tools that are not web searches.
ForeignTools(anthropicReq) ==
  SelectSeq(anthropicReq.tools.items, LAMBDA t : ~isUnsupportedTool(t.name))

\* The foreign names that the map sends to an upstream name.
ReverseLookup(map, name) == {map[i].from : i \in {j \in 1..Len(map) : map[j].to = name}}

\* C21: the rename map convertRequest returns is one-to-one; every tool
\* definition and every history tool use carries the upstream name the map
\* gives to its foreign name (a tool without a name goes under 'tool'); and
\* the reverse lookup of every emitted name yields exactly that foreign name.
C21_RenameMapReversible ==
  Started =>
    LET map == call.result.toolNameMap
        body == call.requests[1].body
        tools == body.current.ctx.tools.items
        foreignTools == ForeignTools(call.anthropicReq)
        uses == EmittedToolUses(body.history)
        foreignUses == ForeignToolUses(normalizeMessageList(call.anthropicReq.messages))
    IN /\ \A i, j \in 1..Len(map) :
            i # j => map[i].from # map[j].from /\ map[i].to # map[j].to
       /\ Len(tools) = Len(foreignTools)
       /\ \A k \in 1..Len(tools) :
            ReverseLookup(map, tools[k].name) = {orToolWord(foreignTools[k].name)}
       /\ Len(uses) = Len(foreignUses)
       /\ \A k \in 1..Len(uses) :
            ReverseLookup(map, uses[k].name) = {orToolWord(foreignUses[k].name)}

\* C21 witness: a tool use of the history and a tool definition have foreign
\* names that differ and sanitize to the same identifier, and both are emitted.
C21_Witness ==
  /\ Started
  /\ \E i, j \in 1..Len(call.result.toolNameMap) :
       LET map == call.result.toolNameMap
           body == call.requests[1].body
       IN /\ map[i].from # map[j].from
          /\ sanitizeToolName(map[i].from) = sanitizeToolName(map[j].from)
          /\ map[i].to \in ToolUseNames(body)
          /\ \E k \in 1..Len(body.current.ctx.tools.items) :
               body.current.ctx.tools.items[k].name = map[j].to

\* The messages of the two roles, all of them.
AllTurns(rawMessages) ==
  SelectSeq([i \in 1..Len(rawMessages) |->
               [role |-> normalizeRole(rawMessages[i].role),
                content |-> rawMessages[i].content]],
            IsTurn)

\* C22: when the foreign request holds more than 200 messages of the roles
\* user and assistant, the primary body is the translation of the last 200 of
\* them, so the final message of the input determines the current turn.
C22_LastMessagesConsidered ==
  Started =>
    LET turns == AllTurns(call.anthropicReq.messages) IN
    Len(turns) > MessageLimit =>
      call.requests[1].body =
        convertMessages(call.anthropicReq, FirstUuids, call.profileArn,
                        mapModel(call.anthropicReq.model),
                        TakeLast(turns, MessageLimit)).kiroRequest

\* The k-th smallest member of a set of numbers.
Nth(S, k) == CHOOSE i \in S : Cardinality({j \in S : j <= i}) = k

\* The number of messages before the trailing run of user messages.
BeforeTrailingRun(msgs) ==
  CHOOSE start \in 0..Len(msgs) :
    /\ \A i \in (start + 1)..Len(msgs) : msgs[i].role = "user"
    /\ start > 0 => msgs[start].role = "assistant"

\* The last message of the run of user messages that msgs[first] starts.
RunEnd(msgs, first) ==
  CHOOSE last \in first..Len(msgs) :
    /\ \A i \in first..last : msgs[i].role = "user"
    /\ last < Len(msgs) => msgs[last + 1].role = "assistant"

\* The texts a foreign message holds, in order: its string, or the texts of
\* its blocks of the given types, the empty ones left out.
TextsOf(msg, types) ==
  IF msg.content.kind = "string"
  THEN IF Length(msg.content.text) > 0 THEN << msg.content.text >> ELSE <<>>
  ELSE IF msg.content.kind = "null" THEN <<>>
  ELSE LET texts == SelectSeq(msg.content.blocks,
                              LAMBDA b : b.type \in types /\ Length(b.text) > 0)
       IN [i \in 1..Len(texts) |-> texts[i].text]

\* The texts of the messages first..last, one message after the other.
RECURSIVE TextsOfRun(_, _, _)
TextsOfRun(msgs, first, last) ==
  IF first > last THEN <<>>
  ELSE TextsOf(msgs[first], {"text"}) \o TextsOfRun(msgs, first + 1, last)

\* The texts, one per line.
RECURSIVE Lines(_)
Lines(texts) ==
  IF Len(texts) = 1 THEN texts[1]
  ELSE [text |-> texts[1].text \o "\n" \o Lines(Tail(texts)).text,
        len |-> texts[1].len + 1 + Lines(Tail(texts)).len,
        cut |-> 0]

\* The number of tool_result blocks of the messages first..last.
RECURSIVE ResultsInRun(_, _, _)
ResultsInRun(msgs, first, last) ==
  IF first > last THEN 0
  ELSE (IF msgs[first].content.kind = "blocks"
        THEN Len(SelectSeq(msgs[first].content.blocks, LAMBDA b : b.type = "tool_result"))
        ELSE 0)
       + ResultsInRun(msgs, first + 1, last)

\* The assistant's message is plain: a string, or text blocks only.
PlainMessage(msg) ==
  msg.content.kind = "blocks" => \A i \in 1..Len(msg.content.blocks) :
                                   msg.content.blocks[i].type = "text"

\* The history entry that stands for the message msgs[i]: the assistant's
\* message itself (with its text, when it is plain and has one), or the run
\* of user messages that msgs[i] starts, with the texts of the run one per
\* line and as many tool results as the run holds.
StandsFor(entry, msgs, i) ==
  IF msgs[i].role = "assistant"
  THEN /\ entry.kind = "assistantResponseMessage"
       /\ (PlainMessage(msgs[i]) /\ TextsOf(msgs[i], {"text"}) # <<>>) =>
            entry.content = Lines(TextsOf(msgs[i], {"text"}))
  ELSE LET texts == TextsOfRun(msgs, i, RunEnd(msgs, i)) IN
       /\ entry.kind = "userInputMessage"
       /\ texts # <<>> => entry.content = Lines(texts)
       /\ Len(ResultsOf(entry.ctx).items) = ResultsInRun(msgs, i, RunEnd(msgs, i))

\* convertRequest has just returned and no attempt is sent yet.
Translated == call.pc = "send" /\ call.i = 1 /\ call.requests # <<>>

\* C23: the trailing run of user messages of the considered messages is the
\* current turn (its texts one per line, 'continue' when there is none, and
\* its tool results); the messages before it are the history after the
\* system pair, in their order, every run of user messages as one entry; when
\* the last message is the assistant's, the current text is 'continue'
\* without tool results and that message is the last history entry.
C23_HistoryAndCurrentTurn ==
  Translated =>
    LET msgs == normalizeMessageList(call.anthropicReq.messages)
        body == call.requests[1].body
        start == BeforeTrailingRun(msgs)
        heads == {i \in 1..start : msgs[i].role = "assistant" \/ i = 1
                                     \/ msgs[i - 1].role = "assistant"}
        pair == Len(body.history) - Cardinality(heads)
        texts == TextsOfRun(msgs, start + 1, Len(msgs))
    IN /\ pair \in {0, 2}
       /\ \A k \in 1..Cardinality(heads) :
            StandsFor(body.history[pair + k], msgs, Nth(heads, k))
       /\ body.current.content = IF texts # <<>> THEN Lines(texts) ELSE ContinueText
       /\ Len(ResultsOf(body.current.ctx).items) = ResultsInRun(msgs, start + 1, Len(msgs))
       /\ msgs[Len(msgs)].role = "assistant" =>
            /\ body.current.content = ContinueText
            /\ ~ResultsOf(body.current.ctx).has
            /\ StandsFor(body.history[Len(body.history)], msgs, Len(msgs))

\* C23 witness: the conversation ends with the assistant after a run of two
\* user messages, which the history holds as one entry before the assistant's.
C23_Witness ==
  /\ Translated
  /\ LET msgs == normalizeMessageList(call.anthropicReq.messages)
         history == call.requests[1].body.history
     IN /\ Len(msgs) = 3
        /\ msgs[1].role = "user" /\ msgs[2].role = "user" /\ msgs[3].role = "assistant"
        /\ history[Len(history)].kind = "assistantResponseMessage"
        /\ history[Len(history) - 1].kind = "userInputMessage"
        /\ call.requests[1].body.current.content = ContinueText

\* C24: in the history of the primary body no two adjacent entries are of the
\* same kind: a run of user messages is one userInputMessage entry and no two
\* assistantResponseMessage entries follow each other.
C24_HistoryAlternates ==
  Translated =>
    LET history == call.requests[1].body.history IN
    \A i \in 1..(Len(history) - 1) : history[i].kind # history[i + 1].kind

\* The thinking directives for a budget.
ThinkingDirectives(budget) ==
  Lit("<thinking_mode>enabled</thinking_mode><max_thinking_length>" \o ToString(budget)
      \o "</max_thinking_length>")

\* C25: when thinking is enabled, the first history entry of the primary body
\* is a userInputMessage whose content starts with the thinking directives for
\* the budget given (10000 when none is given), and is the directives alone
\* when the system field yields no text; the second entry is the assistant's
\* 'I will follow these instructions.'.
C25_ThinkingPrefixFirst ==
  (Translated /\ call.anthropicReq.thinking.enabled) =>
    LET history == call.requests[1].body.history
        budget == call.anthropicReq.thinking.budget_tokens
        directives == ThinkingDirectives(IF budget = 0 THEN 10000 ELSE budget)
        systemText == extractSystemContent(call.anthropicReq.system)
    IN /\ Len(history) >= 2
       /\ history[1].kind = "userInputMessage"
       /\ history[1].content = IF Length(systemText) = 0 THEN directives
                               ELSE Concat(Concat(directives, Lit("\n")), systemText)
       /\ history[2] = AssistantEntry(Lit("I will follow these instructions."), Absent)

\* C26: in the primary body the content of the current message is at most
\* 12 000 characters long and every tool description at most 2 000.
C26_CapsAreUpperBounds ==
  Translated =>
    LET current == call.requests[1].body.current IN
    /\ Length(current.content) <= 12000
    /\ \A k \in 1..Len(current.ctx.tools.items) :
         Length(current.ctx.tools.items[k].description) <= 2000

\* C27: a minimal-history body sent carries the tool results of the current
\* turn exactly as the primary body does, no tools, no tool results in any
\* history entry, and the last 8 entries of the primary body's history.
C27_MinimalHistoryKeepsCurrentResults ==
  \A k \in 1..Len(call.sent) :
    call.sent[k].mode = "minimal-history" =>
      LET primary == call.sent[1].body
          body == call.sent[k].body
          first == IF Len(primary.history) > 8 THEN Len(primary.history) - 8 ELSE 0
      IN /\ body.current.ctx.toolResults = primary.current.ctx.toolResults
         /\ ~body.current.ctx.tools.has
         /\ \A i \in 1..Len(body.history) : ~body.history[i].ctx.toolResults.has
         /\ Len(body.history) = Len(primary.history) - first
         /\ \A i \in 1..Len(body.history) :
              body.history[i].kind = primary.history[first + i].kind

\* The key order of conversationState on the wire.
WireOrder ==
  << "agentContinuationId", "agentTaskType", "chatTriggerType", "currentMessage",
     "conversationId", "history" >>

\* C29: in every body sent (the primary body, the fallback bodies and the
\* single-turn body) the keys of conversationState are, in this order,
\* agentContinuationId, agentTaskType, chatTriggerType, currentMessage,
\* conversationId, history; buildFallbackRequest keeps that order for any
\* body that has it, and the single-turn body has it whatever the keys of
\* the base body, which has a current message.
C29_StateKeyOrder ==
  /\ \A k \in 1..Len(call.sent) : call.sent[k].body.keys = WireOrder
  /\ ( /\ call.pc = "probe"
       /\ call.probe.mode # ""
       /\ call.probe.prevBody.state
       /\ HasKey(call.probe.prevBody.keys, "currentMessage")
       /\ (call.probe.prevBody.keys = WireOrder \/ call.probe.mode = "single-turn") ) =>
       call.probe.body.keys = WireOrder

\* C29 witness: all six bodies of a relaxed call were sent; the no-tools body
\* had its chatTriggerType set back from 'AUTO' and the last is the
\* single-turn body.
C29_Witness ==
  /\ Len(call.sent) = 6
  /\ call.sent[1].body.chatTriggerType = "AUTO"
  /\ call.sent[3].mode = "no-tools"
  /\ call.sent[3].body.chatTriggerType = "MANUAL"
  /\ call.sent[6].mode = "single-turn"

(* -------------------- further claims on the pool ------------------------ *)

\* C28: in every reachable pool state, whatever the random draw, the account
\* selectAccount returns has a refresh token in its credentials.
C28_SelectedHasRefreshToken ==
  \A rnd \in RandomChoices(pool) :
    LET r == selectAccount(pool, rnd) IN
    r.id # Null =>
      \A i \in 1..Len(pool.accounts) :
        pool.accounts[i].id = r.id => pool.accounts[i].refreshToken

\* A caller that forced a sync, load() or another, awaits the sync in flight.
ForcedWaiting ==
  \E i \in 1..Len(waiters) : waiters[i].op \in {"load", "syncSharedAccounts(true)"}

\* C30: when fs.stat answers for a file that exists, the sync goes on to read
\* and parse the file exactly if a forced request awaits it (the request that
\* started it or one issued while it was in flight) or the file's mtime is
\* greater than the last one seen; otherwise it ends and leaves the accounts,
\* the token managers and the statuses as they are.
C30_ReadsIffForcedOrNewer ==
  [][ (pool.sharedSyncPromise.pc = "stat" /\ pool'.sharedSyncPromise.pc # "stat"
       /\ file.exists /\ SyncStat(FALSE)) =>
        LET due == \/ pool.sharedSyncPromise.force
                   \/ ForcedWaiting
                   \/ file.mtimeMs > pool.sharedAccountsMtimeMs
        IN /\ pool'.sharedSyncPromise.pc = "read" <=> due
           /\ ~due => /\ pool'.accounts = pool.accounts
                       /\ pool'.tokenManagers = pool.tokenManagers ]_vars

\* fs.readFile has rejected, or it has answered for a file that is gone or
\* does not hold a JSON array.
FailedRead ==
  /\ pool.sharedSyncPromise.pc = "read"
  /\ pool'.sharedSyncPromise.pc # "read"
  /\ SyncRead(TRUE) \/ ~(file.exists /\ file.content.kind = "array")

\* fs.stat has rejected with an error other than ENOENT.
FailedStat == pool.sharedSyncPromise.pc = "stat" /\ SyncStat(TRUE)

\* C31: a sync that fails on fs.stat, on reading or on parsing the file ends
\* without raising:
\* the callers awaiting it resume, the accounts, the token managers and the
\* last mtime seen are as before the sync, selectAccount selects among the
\* accounts of before, and no sync is left in flight, so a later one can start.
C31_FailedSyncLeavesPool ==
  [][ (FailedRead \/ FailedStat) =>
        /\ pool'.accounts = pool.accounts
        /\ pool'.tokenManagers = pool.tokenManagers
        /\ pool'.sharedAccountsMtimeMs = pool.sharedAccountsMtimeMs
        /\ pool'.sharedSyncPromise = NoSync
        /\ syncSharedAccounts(pool', FALSE).sharedSyncPromise.pc = "stat"
        /\ ready' = waiters /\ waiters' = <<>>
        /\ \A rnd \in RandomChoices(pool') :
             LET r == selectAccount(pool', rnd) IN
             /\ (r.id = Null) <=> (ActiveAt(pool.accounts) = {})
             /\ r.id # Null =>
                  \E i \in ActiveAt(pool.accounts) : pool.accounts[i].id = r.id ]_vars

\* C31 witness: a sync has just failed on a file that is not a JSON array and
\* is newer than the last one loaded; a caller that awaited it is about to
\* select among the accounts loaded before.
C31_Witness ==
  /\ ready # <<>>
  /\ Head(ready).op = "selectAccount"
  /\ pool.sharedSyncPromise = NoSync
  /\ file.exists /\ file.content.kind # "array"
  /\ file.mtimeMs > pool.sharedAccountsMtimeMs
  /\ ActiveAt(pool.accounts) # {}

\* fs.stat has answered that the file does not exist (ENOENT).
MissingAtStat ==
  /\ pool.sharedSyncPromise.pc = "stat"
  /\ pool'.sharedSyncPromise.pc # "stat"
  /\ ~file.exists
  /\ SyncStat(FALSE)

\* C32: a sync that finds the file missing leaves the pool without accounts
\* and token managers, so that selectAccount returns no account, and with the
\* last mtime seen reset to 0, so that the file is loaded again when it
\* reappears, whatever its mtime.
C32_MissingFileIsEmptyFile ==
  [][ MissingAtStat =>
        /\ pool'.accounts = <<>>
        /\ pool'.tokenManagers = EmptyMap
        /\ pool'.sharedAccountsMtimeMs = 0
        /\ \A rnd \in RandomChoices(pool') : selectAccount(pool', rnd).id = Null ]_vars

(* --------------------- further claims on the client --------------------- *)

\* The prepared bodies of mode no-tools.
NoToolsBodies == {k \in 1..Len(call.requests) : call.requests[k].mode = "no-tools"}

\* C33: the no-tools body has no tools in the current turn and in the history
\* entries and chatTriggerType MANUAL; the toolResults of its current turn, the
\* toolResults and toolUses of its history entries and the number and order of
\* its history entries are those of the primary body.
C33_NoToolsKeepsResults ==
  Translated =>
    \A k \in NoToolsBodies :
      LET primary == call.requests[1].body
          body == call.requests[k].body
      IN /\ ~ToolsOf(body.current.ctx).has
         /\ body.chatTriggerType = "MANUAL"
         /\ ResultsOf(body.current.ctx) = ResultsOf(primary.current.ctx)
         /\ Len(body.history) = Len(primary.history)
         /\ \A j \in 1..Len(body.history) :
              /\ body.history[j].kind = primary.history[j].kind
              /\ ~ToolsOf(body.history[j].ctx).has
              /\ ResultsOf(body.history[j].ctx) = ResultsOf(primary.history[j].ctx)
              /\ body.history[j].toolUses = primary.history[j].toolUses

\* The value out has the JSON type of the value in and, if they are objects,
\* so has every entry of out compared with the entry of in of the same key.
RECURSIVE TypesKept(_, _)
TypesKept(in, out) ==
  /\ out.type = in.type
  /\ out.type = "object" =>
       \A i \in 1..Len(out.items) :
         \E j \in 1..Len(in.items) :
           /\ in.items[j].key = out.items[i].key
           /\ TypesKept(in.items[j], out.items[i])

\* Every string of the value is within the limit of its key.
RECURSIVE StringsCut(_)
StringsCut(out) ==
  /\ out.type = "string" =>
       Length(out.str) <= (IF out.key \in {"description", "title"}
                           THEN SchemaTitleLimit ELSE SchemaStringLimit)
  /\ \A i \in 1..Len(out.items) : StringsCut(out.items[i])

\* The tool definitions of the primary body.
BuiltTools ==
  LET ctx == call.requests[1].body.current.ctx IN
  IF ctx.present /\ ctx.tools.has THEN ctx.tools.items ELSE <<>>

\* C34: in the schema of every tool definition, a string under 'description'
\* or 'title' has at most 512 characters and any other string at most 1 024,
\* and every value has the JSON type it has in the foreign tool's schema,
\* also a value that is not a string and is stored under 'description' or
\* 'title'.
C34_SchemaKeepsTypes ==
  Translated =>
    \A k \in 1..Len(BuiltTools) :
      \/ BuiltTools[k].inputSchema = EmptySchema
      \/ \E j \in 1..Len(call.anthropicReq.tools.items) :
           LET t == call.anthropicReq.tools.items[j] IN
           /\ BuiltTools[k].description = truncateString(t.description, DescriptionLimit)
           /\ TypesKept(t.input_schema, BuiltTools[k].inputSchema)
           /\ StringsCut(BuiltTools[k].inputSchema)

(* ----------------------- selection over many calls ---------------------- *)

\* The ids returned by n consecutive calls of selectAccount on pool p with
\* nothing in between.
RECURSIVE ConsecutivePicks(_, _)
ConsecutivePicks(p, n) ==
  IF n = 0 THEN <<>>
  ELSE LET r == selectAccount(p, 0) IN <<r.id>> \o ConsecutivePicks(r.pool, n - 1)

\* Accounts added to the pool at hand, to have up to four of them.
MoreAccounts == { <<>>, <<"C">>, <<"C", "D">> }

Widened(p, extra) ==
  [p EXCEPT !.accounts = @ \o [i \in 1..Len(extra) |-> newAccount(extra[i], TRUE)]]

\* Each of the n active accounts of p is returned exactly once by the next n calls.
FairFrom(p) ==
  LET av == available(p.accounts)
      picks == ConsecutivePicks(p, Len(av))
  IN \A i \in 1..Len(av) :
       Cardinality({k \in 1..Len(picks) : picks[k] = av[i].id}) = 1

\* C35: under round-robin, from every state of the pool and so from every
\* value of the cursor, n consecutive calls of selectAccount over n active
\* accounts return each of them exactly once.
C35_RoundRobinFair ==
  pool.strategy \notin {"random", "least-used"} =>
    \A extra \in MoreAccounts : FairFrom(Widened(pool, extra))

C35_Witness ==
  /\ pool.strategy = "round-robin"
  /\ Len(available(pool.accounts)) = 2
  /\ pool.roundRobinIndex % 2 = 1
  /\ hist.rr > 0

(* ------------------------- cooldowns that repeat ------------------------ *)

\* The timeout that fires was scheduled for the account object the pool
\* holds, and a later rate-limit error of that object has its timeout pending.
EarlierTimerFires ==
  /\ TimerFires
  /\ Head(timers).obj = 0
  /\ \E i \in 2..Len(timers) : timers[i] = Head(timers)

\* C36: a timeout moves an account from 'cooldown' to 'active' only if it is
\* the timeout of the most recent rate-limit error of that account: the
\* timeout of an earlier error, which fires less than 5 minutes after the
\* latest one, leaves the cooldown in place.
C36_TimerNeverShortensCooldown ==
  [][ (/\ EarlierTimerFires
       /\ StatusOf(pool.accounts, Head(timers).id) = "cooldown")
      => StatusOf(pool'.accounts, Head(timers).id) = "cooldown" ]_vars

(* ------------------------- tool results and uses ------------------------ *)

\* The blocks of one type of a foreign message.
BlocksOf(msg, type) ==
  IF msg.content.kind = "blocks"
  THEN SelectSeq(msg.content.blocks, LAMBDA b : b.type = type) ELSE <<>>

\* Every tool_result of the foreign messages carries the id of a tool_use of
\* an earlier assistant message.
ForeignPaired(msgs) ==
  \A i \in 1..Len(msgs) :
    msgs[i].role = "user" =>
      \A r \in 1..Len(BlocksOf(msgs[i], "tool_result")) :
        \E j \in 1..(i - 1) :
          /\ msgs[j].role = "assistant"
          /\ \E u \in 1..Len(BlocksOf(msgs[j], "tool_use")) :
               BlocksOf(msgs[j], "tool_use")[u].id = BlocksOf(msgs[i], "tool_result")[r].id

\* The toolUseIds of the toolUses of the first n history entries.
UsedIds(history, n) ==
  UNION { { history[h].toolUses.items[u].toolUseId : u \in 1..Len(history[h].toolUses.items) } :
          h \in 1..n }

\* The toolUseIds of the toolResults of a context.
ResultIds(ctx) ==
  { ResultsOf(ctx).items[r].toolUseId : r \in 1..Len(ResultsOf(ctx).items) }

\* C37: when every tool_result of the foreign messages follows a tool_use of
\* its id (web searches and ids that need sanitizing included), every
\* toolResults entry of the primary body, in a history entry or in the current
\* message, has the toolUseId of a toolUses entry of an earlier history entry.
C37_NoOrphanedToolResults ==
  Translated =>
    LET body == call.requests[1].body IN
    ForeignPaired(AllTurns(call.anthropicReq.messages)) =>
      /\ \A h \in 1..Len(body.history) :
           ResultIds(body.history[h].ctx) \subseteq UsedIds(body.history, h - 1)
      /\ ResultIds(body.current.ctx) \subseteq UsedIds(body.history, Len(body.history))

(* ---------------------- the bodies of one call ------------------------- *)

\* C38: the bodies prepared by one call belong to one conversation and are
\* made from the primary body: every body has the conversationId, the
\* agentContinuationId, the modelId and the profileArn of the primary body,
\* every fallback body is buildFallbackRequest of the primary body and its
\* mode, and the primary body, which is sent first, is still the body
\* convertRequest returned once all the fallback bodies are made.
C38_BodiesOfOneConversation ==
  /\ call.pc \in {"fetch", "text", "done"} /\ call.sent # <<>> =>
       call.sent[1] = call.requests[1]
  /\ Translated =>
       LET primary == call.requests[1].body IN
       /\ call.requests[1].mode = "primary"
       /\ primary = convertRequest(call.anthropicReq, FirstUuids, call.profileArn).kiroRequest
       /\ \A k \in 2..Len(call.requests) :
            LET body == call.requests[k].body IN
            /\ body.conversationId = primary.conversationId
            /\ body.agentContinuationId = primary.agentContinuationId
            /\ body.current.modelId = primary.current.modelId
            /\ body.profileArn = primary.profileArn
            /\ \E uuids \in LaterUuids :
                 body = buildFallbackRequest(primary, call.requests[k].mode, uuids).req

\* C38 witness: all five fallback bodies are prepared for a current text that
\* the minimal-history and the single-turn bodies cut at different lengths.
C38_Witness ==
  /\ Translated
  /\ Len(call.requests) = 6
  /\ Length(call.requests[1].body.current.content) > SingleTurnContentLimit
  /\ call.requests[6].mode = "single-turn"
  /\ call.requests[6].body.current.content # call.requests[5].body.current.content
  /\ call.requests[6].body.conversationId = call.requests[1].body.conversationId

\* The pool after k consecutive calls of selectAccount.
RECURSIVE AfterCalls(_, _)
AfterCalls(p, k) == IF k = 0 THEN p ELSE AfterCalls(selectAccount(p, 0).pool, k - 1)

\* The requestCounts of the active accounts.
ActiveCounts(p) == { available(p.accounts)[i].requestCount : i \in 1..Len(available(p.accounts)) }

\* The number of consecutive calls followed.
BalanceCalls == 9

\* C39: under least-used, starting from active accounts with equal
\* requestCounts and with nothing but calls of selectAccount, the largest and
\* the smallest requestCount of the active accounts never differ by more than 1.
C39_LeastUsedBalanced ==
  pool.strategy = "least-used" =>
    \A extra \in MoreAccounts :
      Cardinality(ActiveCounts(Widened(pool, extra))) = 1 =>
        \A k \in 0..BalanceCalls :
          \A m, n \in ActiveCounts(AfterCalls(Widened(pool, extra), k)) : m - n <= 1

\* C39 witness: least-used has selected one of two active accounts that had
\* equal counts, and the counts now differ by 1.
C39_Witness ==
  /\ pool.strategy = "least-used"
  /\ hist.rr = 0
  /\ Len(available(pool.accounts)) = 2
  /\ ActiveCounts(pool) = {0, 1}
  /\ \E id \in Ids : hist.picked = [NoPicks EXCEPT ![id] = 1]

(* --------------------- updates during a sync in flight ------------------ *)

\* The record lists a sync in flight may find in the file when it reads it.
LoadableRecords == { c.records : c \in {f \in SyncFiles : f.kind = "array"} }

\* C40: while a sync is in flight, an error recorded on an account (its
\* errorCount raised and, for a rate limit, its status 'cooldown') and a
\* selection (requestCount raised, lastUsedAt set) are found in the pool after
\* the swap, whatever the file holds, for every id the file holds.
C40_UpdatesSurviveSwap ==
  pool.sharedSyncPromise.pc # "none" =>
    \A records \in LoadableRecords, mtimeMs \in {pool.sharedSyncPromise.mtimeMs} :
      /\ \A id \in KeysOf(pool.accounts), isRateLimit \in BOOLEAN :
           LET after == swapAccounts(recordError(pool, id, isRateLimit), records, mtimeMs) IN
           HasId(after.accounts, id) =>
             /\ MapGet(after.accounts, id).errorCount = MapGet(pool.accounts, id).errorCount + 1
             /\ MapGet(after.accounts, id).requestCount = MapGet(pool.accounts, id).requestCount
             /\ isRateLimit => StatusOf(after.accounts, id) = "cooldown"
      /\ \A rnd \in RandomChoices(pool) :
           LET selected == selectAccount(pool, rnd)
               after == swapAccounts(selected.pool, records, mtimeMs) IN
           (selected.id # Null /\ HasId(after.accounts, selected.id)) =>
             /\ MapGet(after.accounts, selected.id).requestCount =
                  MapGet(pool.accounts, selected.id).requestCount + 1
             /\ MapGet(after.accounts, selected.id).lastUsedAt = Iso
             /\ MapGet(after.accounts, selected.id).errorCount =
                  MapGet(pool.accounts, selected.id).errorCount

\* C40 witness: the file is being read by a sync in flight, an account that
\* the file lists has been selected, and an error can be recorded on it
\* before the swap.
C40_Witness ==
  /\ pool.sharedSyncPromise.pc = "read"
  /\ file.exists /\ file.content.kind = "array"
  /\ totalErrors(pool) < limits.errors
  /\ \E id \in KeysOf(pool.accounts) \cap ParsedIds(file.content) :
       /\ MapGet(pool.accounts, id).requestCount > 0
       /\ StatusOf(pool.accounts, id) = "active"
       /\ mapStatus(LastRecord(file.content, id).status) = "disabled"

====
